---- MODULE Spec2Model ----
(***************************************************************************)
(* The raster document engine of drkr: the DocumentManager registry        *)
(* (documents, per-document history, the pixel store keyed by layer id),   *)
(* the commands that mutate it under the registry mutex, the crop/expand   *)
(* transform and the DRKR open path.                                       *)
(*                                                                         *)
(* Pixel buffers are sequences of bytes (Vec<u8>), index i of the code is  *)
(* index i+1 here.  Option<T> is <<>> (None) or <<v>> (Some(v)).           *)
(***************************************************************************)
EXTENDS Integers, Sequences, FiniteSets, TLC

VARIABLES
    documents,   \* DocumentManager.documents : doc id -> Document
    history,     \* DocumentManager.history   : doc id -> HistoryManager
    pixel_data,  \* DocumentManager.pixel_data: layer id -> bytes
    next_uuid,   \* number of v4 uuids drawn so far
    now,         \* last value read from the wall clock
    mutex,       \* the Mutex<DocumentManager>: "free", "held" or "poisoned"
    last,        \* the last command: its arguments and what it returned
    steps,       \* commands issued so far
    phase,       \* position in a scripted scenario, and what it recorded
    files,       \* the file system: path -> what the file holds
    task         \* the save or open command in flight between two steps

vars == <<documents, history, pixel_data, next_uuid, now, mutex, last, steps,
          phase, files, task>>

registry == <<documents, history, pixel_data>>

----------------------------------------------------------------------------
(* Bounds of the exploration.                                              *)

MaxDim == 1      \* widths and heights passed to create and crop: 0..MaxDim
MaxUuid == 3     \* uuids the session may draw
MaxClock == 1    \* clock readings: 0..MaxClock
MaxSteps == 3    \* commands in a session

Dims == 0..MaxDim

----------------------------------------------------------------------------
(* Small helpers.                                                          *)

None == <<>>
Some(v) == <<v>>
UnwrapOr(opt, d) == IF opt = None THEN d ELSE opt[1]

Min(a, b) == IF a < b THEN a ELSE b
Max(a, b) == IF a > b THEN a ELSE b

Without(f, keys) == [k \in (DOMAIN f) \ keys |-> f[k]]
Insert(f, k, v) == [x \in (DOMAIN f) \cup {k} |-> IF x = k THEN v ELSE f[x]]

Repeat(byte, n) == [i \in 1..n |-> byte]

\* width * height * 4 in u32.  The sizes explored keep width * height below
\* 2^31, so the product is 2^32 or more exactly when width * height reaches
\* 2^30.  A build with overflow checks (the dev profile) panics there, a
\* build without them (the release profile) keeps the low 32 bits; a
\* session runs one build, recorded in phase.at.
OverflowChecks == phase.at = "overflow-checks"
U32Quarter == 1073741824
Overflows(width, height) == width * height >= U32Quarter
BufferLen(width, height) == ((width * height) % U32Quarter) * 4

\* vec![byte; (width * height * 4) as usize]
FilledBuffer(byte, width, height) == Repeat(byte, BufferLen(width, height))

Transparent == <<0, 0, 0, 0>>

\* The 4 bytes of pixel (x, y) of a buffer of the given row width; transparent
\* outside the layer bounds and where the buffer does not hold the 4 bytes.
PixelAt(pixels, width, height, x, y) ==
    LET idx == (y * width + x) * 4
    IN  IF /\ x >= 0 /\ x < width
           /\ y >= 0 /\ y < height
           /\ idx + 4 <= Len(pixels)
        THEN <<pixels[idx + 1], pixels[idx + 2], pixels[idx + 3], pixels[idx + 4]>>
        ELSE Transparent

----------------------------------------------------------------------------
(* engine/layer.rs, engine/history.rs, engine/document.rs: constructors.   *)

HistoryCapacity == 50

NewRaster(id, width, height) ==
    [id |-> id, layer_type |-> "Raster", visible |-> TRUE, locked |-> FALSE,
     opacity |-> 100, blend_mode |-> "Normal", x |-> 0, y |-> 0,
     width |-> width, height |-> height]

HistoryManagerNew(max_entries) ==
    [undo_stack |-> <<>>, redo_stack |-> <<>>, max_entries |-> max_entries]

DocumentNew(id, layer_id, width, height, resolution, t) ==
    [id |-> id, width |-> width, height |-> height, resolution |-> resolution,
     layers |-> <<NewRaster(layer_id, width, height)>>,
     modified_at |-> t, source_path |-> None]

LayerIds(doc) == {doc.layers[i].id : i \in 1..Len(doc.layers)}

\* Document::get_layer: the first layer with the id, 0 when there is none
LayerIndex(doc, layer_id) ==
    IF layer_id \in LayerIds(doc)
    THEN CHOOSE i \in 1..Len(doc.layers) :
            /\ doc.layers[i].id = layer_id
            /\ \A j \in 1..(i - 1) : doc.layers[j].id # layer_id
    ELSE 0

----------------------------------------------------------------------------
(* What a command leaves behind for its caller.                            *)

NoId == 0

ReturnedValue(op, doc_id, layer_id, args, result, value) ==
    last' = [op |-> op, doc_id |-> doc_id, layer_id |-> layer_id,
             args |-> args, result |-> result, value |-> value]

Returned(op, doc_id, layer_id, args, result) ==
    ReturnedValue(op, doc_id, layer_id, args, result, <<>>)

Fails(op, doc_id, layer_id, args, err) ==
    /\ Returned(op, doc_id, layer_id, args, err)
    /\ UNCHANGED <<documents, history, pixel_data, next_uuid, now, mutex>>

\* A panic while the guard is alive: the command returns nothing, the
\* unwinding drops the guard and std::sync::Mutex marks the lock poisoned.
Panics(op, doc_id, layer_id, args) ==
    /\ Returned(op, doc_id, layer_id, args, "Panic")
    /\ mutex' = "poisoned"

\* A command that unwraps the lock result: it panics on a poisoned lock.
LockUnwraps(op, doc_id, layer_id, args) ==
    Fails(op, doc_id, layer_id, args, "Panic")

\* manager.lock().map_err(..)?: a mutex poisoned by a holder that panicked
\* is never acquired again, and the command returns InvalidOperation.
LockFails(op, doc_id, layer_id, args) ==
    Fails(op, doc_id, layer_id, args, "InvalidOperation")

----------------------------------------------------------------------------
(* commands/document.rs create_document, DocumentManager::create.          *)

\* A create whose background layer starts transparent, like an added layer.
DoCreateTransparent(width, height, resolution, t) ==
    LET doc_id == next_uuid + 1
        layer_id == next_uuid + 2
        doc == DocumentNew(doc_id, layer_id, width, height,
                           UnwrapOr(resolution, 72), t)
    IN  /\ pixel_data' = Insert(pixel_data, layer_id,
                                FilledBuffer(0, width, height))
        /\ history' = Insert(history, doc_id, HistoryManagerNew(HistoryCapacity))
        /\ documents' = Insert(documents, doc_id, doc)
        /\ next_uuid' = next_uuid + 2
        /\ now' = t
        /\ Returned("create", doc_id, layer_id,
                    <<width, height, resolution>>, "Ok")
        /\ UNCHANGED mutex

DoCreate(width, height, resolution, t) ==
    LET doc_id == next_uuid + 1
        layer_id == next_uuid + 2
        doc == DocumentNew(doc_id, layer_id, width, height,
                           UnwrapOr(resolution, 72), t)
    IN  /\ pixel_data' = Insert(pixel_data, layer_id,
                                FilledBuffer(255, width, height))
        /\ history' = Insert(history, doc_id, HistoryManagerNew(HistoryCapacity))
        /\ documents' = Insert(documents, doc_id, doc)
        /\ next_uuid' = next_uuid + 2
        /\ now' = t
        /\ Returned("create", doc_id, layer_id,
                    <<width, height, resolution>>, "Ok")
        /\ UNCHANGED mutex

\* width * height * 4 panics: Document::new has drawn its ids and read the clock, nothing
\* has been inserted.
CreateOverflows(width, height, resolution, t) ==
    /\ Panics("create", NoId, NoId, <<width, height, resolution>>)
    /\ next_uuid' = next_uuid + 2
    /\ now' = t
    /\ UNCHANGED <<documents, history, pixel_data>>

Create(width, height, resolution) ==
    IF mutex = "poisoned"
    THEN LockFails("create", NoId, NoId, <<width, height, resolution>>)
    ELSE /\ mutex = "free"
         /\ next_uuid + 2 <= MaxUuid
         /\ \E t \in now..MaxClock :
               IF OverflowChecks /\ Overflows(width, height)
               THEN CreateOverflows(width, height, resolution, t)
               ELSE DoCreate(width, height, resolution, t)

----------------------------------------------------------------------------
(* commands/document.rs close_document, DocumentManager::close.            *)

\* A close that forgets the pixel store.
DoCloseKeepsBuffers(doc_id) ==
    /\ documents' = Without(documents, {doc_id})
    /\ history' = Without(history, {doc_id})
    /\ Returned("close", doc_id, NoId, <<>>, "Ok")
    /\ UNCHANGED <<pixel_data, next_uuid, now, mutex>>

DoClose(doc_id) ==
    /\ documents' = Without(documents, {doc_id})
    /\ pixel_data' = Without(pixel_data, LayerIds(documents[doc_id]))
    /\ history' = Without(history, {doc_id})
    /\ Returned("close", doc_id, NoId, <<>>, "Ok")
    /\ UNCHANGED <<next_uuid, now, mutex>>

Close(doc_id) ==
    IF mutex = "poisoned"
    THEN LockFails("close", doc_id, NoId, <<>>)
    ELSE /\ mutex = "free"
         /\ IF doc_id \notin DOMAIN documents
            THEN Fails("close", doc_id, NoId, <<>>, "DocumentNotFound")
            ELSE DoClose(doc_id)

----------------------------------------------------------------------------
(* commands/layer.rs add_layer, DocumentManager::add_layer_to_document,    *)
(* Document::add_layer.                                                    *)

DoAddLayer(doc_id, t) ==
    LET doc == documents[doc_id]
        layer_id == next_uuid + 1
        layer == NewRaster(layer_id, doc.width, doc.height)
    IN  /\ pixel_data' = Insert(pixel_data, layer_id,
                                FilledBuffer(0, doc.width, doc.height))
        /\ documents' = [documents EXCEPT
                            ![doc_id].layers = Append(@, layer),
                            ![doc_id].modified_at = t]
        /\ next_uuid' = next_uuid + 1
        /\ now' = t
        /\ Returned("add_layer", doc_id, layer_id, <<>>, "Ok")
        /\ UNCHANGED <<history, mutex>>

AddLayer(doc_id) ==
    IF mutex = "poisoned"
    THEN LockFails("add_layer", doc_id, NoId, <<>>)
    ELSE /\ mutex = "free"
         /\ IF doc_id \notin DOMAIN documents
            THEN Fails("add_layer", doc_id, NoId, <<>>, "DocumentNotFound")
            ELSE /\ next_uuid + 1 <= MaxUuid
                 /\ IF /\ OverflowChecks
                       /\ Overflows(documents[doc_id].width,
                                    documents[doc_id].height)
                    THEN \* width * height * 4 panics after Layer::new_raster
                         /\ Panics("add_layer", doc_id, NoId, <<>>)
                         /\ next_uuid' = next_uuid + 1
                         /\ UNCHANGED <<documents, history, pixel_data, now>>
                    ELSE \E t \in now..MaxClock : DoAddLayer(doc_id, t)

----------------------------------------------------------------------------
(* commands/layer.rs remove_layer, Document::remove_layer.                 *)

RemoveAt(seq, i) == SubSeq(seq, 1, i - 1) \o SubSeq(seq, i + 1, Len(seq))

DoRemoveLayer(doc_id, layer_id, t) ==
    LET index == LayerIndex(documents[doc_id], layer_id)
    IN  /\ documents' = [documents EXCEPT
                            ![doc_id].layers = RemoveAt(@, index),
                            ![doc_id].modified_at = t]
        /\ now' = t
        /\ Returned("remove_layer", doc_id, layer_id, <<>>, "Ok")
        /\ UNCHANGED <<history, pixel_data, next_uuid, mutex>>

RemoveLayer(doc_id, layer_id) ==
    IF mutex = "poisoned"
    THEN LockFails("remove_layer", doc_id, layer_id, <<>>)
    ELSE /\ mutex = "free"
         /\ IF doc_id \notin DOMAIN documents
            THEN Fails("remove_layer", doc_id, layer_id, <<>>, "DocumentNotFound")
            ELSE IF LayerIndex(documents[doc_id], layer_id) = 0
            THEN Fails("remove_layer", doc_id, layer_id, <<>>, "LayerNotFound")
            ELSE \E t \in now..MaxClock : DoRemoveLayer(doc_id, layer_id, t)

----------------------------------------------------------------------------
(* commands/layer.rs update_layer, Layer::apply_update.  A LayerUpdate is  *)
(* a record of Options (the name is not modelled).                         *)

NoUpdate ==
    [visible |-> None, locked |-> None, opacity |-> None,
     blend_mode |-> None, x |-> None, y |-> None]

ApplyUpdate(layer, update) ==
    [layer EXCEPT
        !.visible = UnwrapOr(update.visible, @),
        !.locked = UnwrapOr(update.locked, @),
        !.opacity = IF update.opacity = None THEN @
                    ELSE Min(update.opacity[1], 100),
        !.blend_mode = UnwrapOr(update.blend_mode, @),
        !.x = UnwrapOr(update.x, @),
        !.y = UnwrapOr(update.y, @)]

UpdateLayer(doc_id, layer_id, update) ==
    IF mutex = "poisoned"
    THEN LockFails("update_layer", doc_id, layer_id, <<update>>)
    ELSE /\ mutex = "free"
         /\ IF doc_id \notin DOMAIN documents
            THEN Fails("update_layer", doc_id, layer_id, <<update>>, "DocumentNotFound")
            ELSE IF LayerIndex(documents[doc_id], layer_id) = 0
            THEN Fails("update_layer", doc_id, layer_id, <<update>>, "LayerNotFound")
            ELSE LET i == LayerIndex(documents[doc_id], layer_id)
                 IN  /\ documents' = [documents EXCEPT
                             ![doc_id].layers[i] = ApplyUpdate(@, update)]
                     /\ Returned("update_layer", doc_id, layer_id, <<update>>, "Ok")
                     /\ UNCHANGED <<history, pixel_data, next_uuid, now, mutex>>

----------------------------------------------------------------------------
(* commands/layer.rs get_layer_pixels, set_layer_pixels_base64,            *)
(* DocumentManager::get_layer_pixels / set_layer_pixels.  The base64 text  *)
(* is modelled by what it decodes to: None when it is not valid base64.    *)

\* get_layer_pixels is read-only: what it returns in the current state
GetLayerPixels(layer_id) ==
    IF layer_id \in DOMAIN pixel_data
    THEN [result |-> "Ok", pixels |-> pixel_data[layer_id]]
    ELSE [result |-> "LayerNotFound", pixels |-> <<>>]

SetLayerPixels(layer_id, pixels) == Insert(pixel_data, layer_id, pixels)

SetLayerPixelsBase64(layer_id, decoded) ==
    IF decoded = None
    THEN Fails("set_layer_pixels", NoId, layer_id, <<>>, "InvalidOperation")
    ELSE IF mutex = "poisoned"
    THEN LockFails("set_layer_pixels", NoId, layer_id, <<>>)
    ELSE /\ mutex = "free"
         /\ pixel_data' = SetLayerPixels(layer_id, decoded[1])
         /\ Returned("set_layer_pixels", NoId, layer_id, <<>>, "Ok")
         /\ UNCHANGED <<documents, history, next_uuid, now, mutex>>

\* the command get_layer_pixels: a copy of the buffer, or LayerNotFound
GetLayerPixelsCommand(layer_id) ==
    IF mutex = "poisoned"
    THEN LockFails("get_layer_pixels", NoId, layer_id, <<>>)
    ELSE /\ mutex = "free"
         /\ ReturnedValue("get_layer_pixels", NoId, layer_id, <<>>,
                          GetLayerPixels(layer_id).result,
                          GetLayerPixels(layer_id).pixels)
         /\ UNCHANGED <<documents, history, pixel_data, next_uuid, now, mutex>>

----------------------------------------------------------------------------
(* commands/document.rs get_document, list_documents, set_document_path,   *)
(* DocumentManager::set_source_path.                                       *)

GetDocument(doc_id) ==
    IF mutex = "poisoned"
    THEN LockFails("get_document", doc_id, NoId, <<>>)
    ELSE /\ mutex = "free"
         /\ IF doc_id \notin DOMAIN documents
            THEN Fails("get_document", doc_id, NoId, <<>>, "DocumentNotFound")
            ELSE /\ ReturnedValue("get_document", doc_id, NoId, <<>>, "Ok",
                                  documents[doc_id])
                 /\ UNCHANGED <<documents, history, pixel_data, next_uuid,
                                now, mutex>>

\* The documents of the registry, in the map's order: a set here.
ListDocuments ==
    IF mutex = "poisoned"
    THEN LockFails("list_documents", NoId, NoId, <<>>)
    ELSE /\ mutex = "free"
         /\ ReturnedValue("list_documents", NoId, NoId, <<>>, "Ok",
                          {documents[d] : d \in DOMAIN documents})
         /\ UNCHANGED <<documents, history, pixel_data, next_uuid, now, mutex>>

SetDocumentPath(doc_id, path) ==
    IF mutex = "poisoned"
    THEN LockFails("set_document_path", doc_id, NoId, <<path>>)
    ELSE /\ mutex = "free"
         /\ IF doc_id \notin DOMAIN documents
            THEN Fails("set_document_path", doc_id, NoId, <<path>>,
                       "DocumentNotFound")
            ELSE /\ documents' = [documents EXCEPT
                                     ![doc_id].source_path = Some(path)]
                 /\ ReturnedValue("set_document_path", doc_id, NoId, <<path>>,
                                  "Ok", [documents[doc_id] EXCEPT
                                            !.source_path = Some(path)])
                 /\ UNCHANGED <<history, pixel_data, next_uuid, now, mutex>>

----------------------------------------------------------------------------
(* commands/layer.rs reorder_layers, Document::reorder_layers.  Indices    *)
(* are usize, counted from 0.                                              *)

InsertAt(seq, i, e) == SubSeq(seq, 1, i - 1) \o <<e>> \o SubSeq(seq, i, Len(seq))

\* A reorder that exchanges the two layers.
MoveLayerSwapping(layers, from_index, to_index) ==
    [i \in 1..Len(layers) |->
        IF i = from_index + 1 THEN layers[to_index + 1]
        ELSE IF i = to_index + 1 THEN layers[from_index + 1]
        ELSE layers[i]]

\* layers.remove(from_index), then layers.insert(to_index, layer)
MoveLayer(layers, from_index, to_index) ==
    InsertAt(RemoveAt(layers, from_index + 1), to_index + 1,
             layers[from_index + 1])

ReorderLayers(doc_id, from_index, to_index) ==
    IF mutex = "poisoned"
    THEN LockFails("reorder_layers", doc_id, NoId, <<from_index, to_index>>)
    ELSE /\ mutex = "free"
         /\ IF doc_id \notin DOMAIN documents
            THEN Fails("reorder_layers", doc_id, NoId, <<from_index, to_index>>,
                       "DocumentNotFound")
            ELSE IF \/ from_index >= Len(documents[doc_id].layers)
                    \/ to_index >= Len(documents[doc_id].layers)
            THEN Fails("reorder_layers", doc_id, NoId, <<from_index, to_index>>,
                       "InvalidOperation")
            ELSE \E t \in now..MaxClock :
                    /\ documents' = [documents EXCEPT
                           ![doc_id].layers = MoveLayer(@, from_index, to_index),
                           ![doc_id].modified_at = t]
                    /\ now' = t
                    /\ Returned("reorder_layers", doc_id, NoId,
                                <<from_index, to_index>>, "Ok")
                    /\ UNCHANGED <<history, pixel_data, next_uuid, mutex>>

----------------------------------------------------------------------------
(* engine/document.rs crop_layer_pixels and crop_document,                 *)
(* commands/crop.rs crop_document.                                         *)

\* A crop that copies from the layer's own origin, whatever the rectangle's.
CropLayerPixelsFromOrigin(old_pixels, old_width, old_height, layer_x, layer_y, crop_x, crop_y, new_width, new_height) ==
    [i \in 1..(new_width * new_height * 4) |->
        LET new_x == ((i - 1) \div 4) % new_width
            new_y == ((i - 1) \div 4) \div new_width
            old_idx == (new_y * old_width + new_x) * 4
        IN  IF /\ new_x < old_width
               /\ new_y < old_height
               /\ old_idx + 3 < Len(old_pixels)
            THEN old_pixels[old_idx + ((i - 1) % 4) + 1]
            ELSE 0]

\* Byte i (1-based) of the new buffer: channel c of new pixel (new_x, new_y).
CropLayerPixels(old_pixels, old_width, old_height, layer_x, layer_y, crop_x, crop_y, new_width, new_height) ==
    LET new_len == BufferLen(new_width, new_height)
    IN  [i \in 1..new_len |->
            LET c == (i - 1) % 4
                new_x == ((i - 1) \div 4) % new_width
                new_y == ((i - 1) \div 4) \div new_width
                doc_x == crop_x + new_x
                doc_y == crop_y + new_y
                old_layer_x == doc_x - layer_x
                old_layer_y == doc_y - layer_y
                old_idx == (old_layer_y * old_width + old_layer_x) * 4
                new_idx == (new_y * new_width + new_x) * 4
            IN  IF /\ old_layer_x >= 0
                   /\ old_layer_x < old_width
                   /\ old_layer_y >= 0
                   /\ old_layer_y < old_height
                   /\ old_idx + 3 < Len(old_pixels)
                   /\ new_idx + 3 < new_len
                THEN old_pixels[old_idx + c + 1]
                ELSE 0]

\* The loop over doc.layers, layer i onwards, on the pixel store pd.
RECURSIVE CropPixelData(_, _, _, _, _, _, _)
CropPixelData(layers, i, pd, crop_x, crop_y, new_width, new_height) ==
    IF i > Len(layers) THEN pd
    ELSE LET layer == layers[i]
             old_pixels == IF layer.id \in DOMAIN pd THEN pd[layer.id]
                           ELSE FilledBuffer(0, layer.width, layer.height)
             new_pixels == CropLayerPixels(old_pixels, layer.width, layer.height,
                                           layer.x, layer.y, crop_x, crop_y,
                                           new_width, new_height)
         IN  CropPixelData(layers, i + 1, Insert(pd, layer.id, new_pixels),
                           crop_x, crop_y, new_width, new_height)

CropLayer(layer, crop_x, crop_y, new_width, new_height) ==
    [layer EXCEPT !.x = @ - crop_x, !.y = @ - crop_y,
                  !.width = new_width, !.height = new_height]

CropDocument(doc_id, crop_x, crop_y, new_width, new_height, t) ==
    LET doc == documents[doc_id]
        layers_affected == [i \in 1..Len(doc.layers) |-> doc.layers[i].id]
    IN  /\ pixel_data' = CropPixelData(doc.layers, 1, pixel_data,
                                       crop_x, crop_y, new_width, new_height)
        /\ documents' = [documents EXCEPT
              ![doc_id].layers =
                  [i \in 1..Len(doc.layers) |->
                      CropLayer(doc.layers[i], crop_x, crop_y,
                                new_width, new_height)],
              ![doc_id].width = new_width,
              ![doc_id].height = new_height,
              ![doc_id].modified_at = t]
        /\ now' = t
        /\ ReturnedValue("crop", doc_id, NoId,
                         <<crop_x, crop_y, new_width, new_height>>, "Ok",
                         [new_width |-> new_width, new_height |-> new_height,
                          layers_affected |-> layers_affected])
        /\ UNCHANGED <<history, next_uuid, mutex>>

\* new_width * new_height * 4 panics in crop_layer_pixels for the first
\* layer, before anything is stored.
CropOverflows(doc_id, x, y, width, height) ==
    /\ Panics("crop", doc_id, NoId, <<x, y, width, height>>)
    /\ UNCHANGED <<documents, history, pixel_data, next_uuid, now>>

\* A crop command without the check of the new dimensions.
CropUnvalidated(doc_id, x, y, width, height) ==
    IF mutex = "poisoned"
    THEN LockFails("crop", doc_id, NoId, <<x, y, width, height>>)
    ELSE /\ mutex = "free"
         /\ IF doc_id \notin DOMAIN documents
            THEN Fails("crop", doc_id, NoId, <<x, y, width, height>>,
                       "DocumentNotFound")
            ELSE \E t \in now..MaxClock :
                    CropDocument(doc_id, x, y, width, height, t)

Crop(doc_id, x, y, width, height) ==
    IF width = 0 \/ height = 0
    THEN Fails("crop", doc_id, NoId, <<x, y, width, height>>, "InvalidOperation")
    ELSE IF mutex = "poisoned"
    THEN LockFails("crop", doc_id, NoId, <<x, y, width, height>>)
    ELSE /\ mutex = "free"
         /\ IF doc_id \notin DOMAIN documents
            THEN Fails("crop", doc_id, NoId, <<x, y, width, height>>,
                       "DocumentNotFound")
            ELSE IF /\ OverflowChecks
                    /\ Overflows(width, height)
                    /\ Len(documents[doc_id].layers) > 0
            THEN CropOverflows(doc_id, x, y, width, height)
            ELSE \E t \in now..MaxClock :
                    CropDocument(doc_id, x, y, width, height, t)

----------------------------------------------------------------------------
(* commands/brush.rs blend_pixel, apply_brush_stamp, apply_brush_stroke.   *)
(* Coordinates and sizes of the strokes explored are integers, f64         *)
(* fractions (opacity, flow, pressure, hardness, colour alpha) are carried *)
(* in percent and the stamp alpha in parts of 10000.  Distances are        *)
(* compared through their squares; where the code needs the distance       *)
(* itself (the falloff ring of a soft brush) it is taken to 1/2000 pixel.  *)

\* floor(n / 2) and ceil(n / 2) for any integer n
FloorHalf(n) == n \div 2
CeilHalf(n) == -((-n) \div 2)

\* Porter-Duff "over" on one pixel <<r, g, b, a>>; the quotients are the
\* exact values of the f64 expressions, truncated by `as u8`.
BlendPixel(dst, src_r, src_g, src_b, src_a) ==
    IF src_a = 0 THEN dst
    ELSE LET den == 255 * src_a + dst[4] * (255 - src_a)
             out(src_c, dst_c) ==
                 Min(255, (src_c * src_a * 255 + dst_c * dst[4] * (255 - src_a))
                             \div den)
         IN  IF den <= 0 THEN <<0, 0, 0, 0>>
             ELSE <<out(src_r, dst[1]), out(src_g, dst[2]),
                    out(src_b, dst[3]), Min(255, den \div 255)>>

\* base_opacity in percent
BaseOpacity(point, settings) ==
    (settings.opacity * settings.flow * UnwrapOr(point.pressure, 100)) \div 10000

\* The loop bounds of one stamp, as i32 before the casts to usize.
StampBounds(layer_width, layer_height, layer_x, layer_y, point, settings) ==
    LET brush_x == point.x - layer_x
        brush_y == point.y - layer_y
    IN  [min_x |-> Max(FloorHalf(2 * brush_x - settings.size), 0),
         max_x |-> Min(CeilHalf(2 * brush_x + settings.size), layer_width - 1),
         min_y |-> Max(FloorHalf(2 * brush_y - settings.size), 0),
         max_y |-> Min(CeilHalf(2 * brush_y + settings.size), layer_height - 1)]

\* A negative upper bound cast to usize is above 2^63.  The py loop does
\* not end when max_y is negative; when it runs at all, the px loop does
\* not end when max_x is negative.
StampLoopsEnd(layer_width, layer_height, layer_x, layer_y, point, settings) ==
    LET b == StampBounds(layer_width, layer_height, layer_x, layer_y,
                         point, settings)
    IN  b.max_y >= 0 /\ (b.min_y > b.max_y \/ b.max_x >= 0)

\* floor(sqrt(n)), searched in lo..hi
RECURSIVE ISqrt(_, _, _)
ISqrt(n, lo, hi) ==
    IF lo >= hi THEN lo
    ELSE LET mid == (lo + hi + 1) \div 2
         IN  IF mid * mid <= n THEN ISqrt(n, mid, hi) ELSE ISqrt(n, lo, mid - 1)

\* A falloff that starts at the centre of the stamp instead of at the inner
\* radius: 1 - dist / radius.
StampAlphaNoCore(point, settings, dx, dy) ==
    LET d2 == 4 * (dx * dx + dy * dy)
        base == BaseOpacity(point, settings)
        num == 1000 * settings.size
                  - ISqrt(1000000 * d2, 0, 1000 * settings.size)
        falloff == (num * 10000) \div (1000 * settings.size)
    IN  (base * ((falloff * falloff) \div 100)) \div 10000

\* The alpha of a stamp at offset (dx, dy) from its centre, in parts of
\* 10000, for a pixel with dist <= radius.  With D = 2 * dist in 1/1000:
\* falloff = 1 - (dist - inner_radius) / falloff_range
\*         = (1000 * size - D) / (10 * size * (100 - hardness)),
\* carried in parts of 10000.
StampAlpha(point, settings, dx, dy) ==
    LET d2 == 4 * (dx * dx + dy * dy)
        base == BaseOpacity(point, settings)
        num == 1000 * settings.size
                  - ISqrt(1000000 * d2, 0, 1000 * settings.size)
        den == 10 * settings.size * (100 - settings.hardness)
        falloff == (num * 10000) \div den
    IN  IF 10000 * d2 <= settings.size * settings.size
                          * settings.hardness * settings.hardness
        THEN base * 100
        ELSE IF den > 0
        THEN (base * ((falloff * falloff) \div 100)) \div 10000
        ELSE base * 100

\* An eraser that takes the stamp alpha off the pixel's alpha.
EraseAlphaSubtracting(current_alpha, alpha) == Max(0, current_alpha - (255 * alpha) \div 10000)

\* The eraser branch of a stamp: the new alpha byte of a pixel whose alpha
\* byte is current_alpha, under a stamp alpha in parts of 10000.
EraseAlpha(current_alpha, alpha) == (current_alpha * (10000 - alpha)) \div 10000

\* A stamp that leaves out the pixels at exactly the radius.
ApplyBrushStampInsideOnly(pixels, layer_width, layer_height, layer_x, layer_y, point, settings, color, is_eraser) ==
    LET b == StampBounds(layer_width, layer_height, layer_x, layer_y,
                         point, settings)
        brush_x == point.x - layer_x
        brush_y == point.y - layer_y
        alpha(px, py) == StampAlpha(point, settings,
                                    px - brush_x, py - brush_y)
        Touched(px, py) ==
            /\ px >= b.min_x /\ px <= b.max_x
            /\ py >= b.min_y /\ py <= b.max_y
            /\ 4 * ((px - brush_x) * (px - brush_x)
                     + (py - brush_y) * (py - brush_y))
                  < settings.size * settings.size
            /\ alpha(px, py) > 0
            /\ (py * layer_width + px) * 4 + 3 < Len(pixels)
        NewPixel(idx, px, py) ==
            LET dst == <<pixels[idx + 1], pixels[idx + 2],
                         pixels[idx + 3], pixels[idx + 4]>>
            IN  IF is_eraser
                THEN <<dst[1], dst[2], dst[3],
                       EraseAlpha(dst[4], alpha(px, py))>>
                ELSE BlendPixel(dst, color.r, color.g, color.b,
                                (alpha(px, py) * color.a * 255) \div 1000000)
    IN  [i \in 1..Len(pixels) |->
            LET p == (i - 1) \div 4
                px == IF layer_width > 0 THEN p % layer_width ELSE 0
                py == IF layer_width > 0 THEN p \div layer_width ELSE 0
            IN  IF layer_width > 0 /\ Touched(px, py)
                THEN NewPixel(p * 4, px, py)[((i - 1) % 4) + 1]
                ELSE pixels[i]]

ApplyBrushStamp(pixels, layer_width, layer_height, layer_x, layer_y, point, settings, color, is_eraser) ==
    LET b == StampBounds(layer_width, layer_height, layer_x, layer_y,
                         point, settings)
        brush_x == point.x - layer_x
        brush_y == point.y - layer_y
        alpha(px, py) == StampAlpha(point, settings,
                                    px - brush_x, py - brush_y)
        Touched(px, py) ==
            /\ px >= b.min_x /\ px <= b.max_x
            /\ py >= b.min_y /\ py <= b.max_y
            /\ 4 * ((px - brush_x) * (px - brush_x)
                     + (py - brush_y) * (py - brush_y))
                  <= settings.size * settings.size
            /\ alpha(px, py) > 0
            /\ (py * layer_width + px) * 4 + 3 < Len(pixels)
        NewPixel(idx, px, py) ==
            LET dst == <<pixels[idx + 1], pixels[idx + 2],
                         pixels[idx + 3], pixels[idx + 4]>>
            IN  IF is_eraser
                THEN <<dst[1], dst[2], dst[3],
                       EraseAlpha(dst[4], alpha(px, py))>>
                ELSE BlendPixel(dst, color.r, color.g, color.b,
                                (alpha(px, py) * color.a * 255) \div 1000000)
    IN  [i \in 1..Len(pixels) |->
            LET p == (i - 1) \div 4
                px == IF layer_width > 0 THEN p % layer_width ELSE 0
                py == IF layer_width > 0 THEN p \div layer_width ELSE 0
            IN  IF layer_width > 0 /\ Touched(px, py)
                THEN NewPixel(p * 4, px, py)[((i - 1) % 4) + 1]
                ELSE pixels[i]]

RECURSIVE ApplyStamps(_, _, _, _, _, _, _, _, _, _)
ApplyStamps(pixels, layer_width, layer_height, layer_x, layer_y, points, i, settings, color, is_eraser) ==
    IF i > Len(points) THEN pixels
    ELSE ApplyStamps(
            ApplyBrushStamp(pixels, layer_width, layer_height, layer_x,
                            layer_y, points[i], settings, color, is_eraser),
            layer_width, layer_height, layer_x, layer_y,
            points, i + 1, settings, color, is_eraser)

\* A stroke that paints without looking at the layer's lock.
ApplyBrushStrokeIgnoringLock(doc_id, layer_id, points, settings, color, is_eraser) ==
    IF mutex = "poisoned"
    THEN LockFails("apply_brush_stroke", doc_id, layer_id, <<points, settings, color, is_eraser>>)
    ELSE /\ mutex = "free"
         /\ IF doc_id \notin DOMAIN documents
            THEN Fails("apply_brush_stroke", doc_id, layer_id, <<points, settings, color, is_eraser>>, "DocumentNotFound")
            ELSE IF LayerIndex(documents[doc_id], layer_id) = 0
            THEN Fails("apply_brush_stroke", doc_id, layer_id, <<points, settings, color, is_eraser>>, "LayerNotFound")
            ELSE LET layer == documents[doc_id].layers[
                                  LayerIndex(documents[doc_id], layer_id)]
                 IN  IF layer_id \notin DOMAIN pixel_data
                     THEN Fails("apply_brush_stroke", doc_id, layer_id, <<points, settings, color, is_eraser>>,
                                "LayerNotFound")
                     ELSE IF \E i \in 1..Len(points) :
                                 ~StampLoopsEnd(layer.width, layer.height,
                                                layer.x, layer.y, points[i], settings)
                     THEN /\ mutex' = "held"
                          /\ Returned("apply_brush_stroke", doc_id, layer_id, <<points, settings, color, is_eraser>>,
                                      "NoReturn")
                          /\ UNCHANGED <<documents, history, pixel_data,
                                         next_uuid, now>>
                     ELSE \E t \in now..MaxClock :
                          /\ pixel_data' = SetLayerPixels(layer_id,
                                 ApplyStamps(pixel_data[layer_id], layer.width,
                                             layer.height, layer.x, layer.y,
                                             points, 1, settings, color, is_eraser))
                          /\ documents' = [documents EXCEPT ![doc_id].modified_at = t]
                          /\ now' = t
                          /\ Returned("apply_brush_stroke", doc_id, layer_id, <<points, settings, color, is_eraser>>, "Ok")
                          /\ UNCHANGED <<history, next_uuid, mutex>>

ApplyBrushStroke(doc_id, layer_id, points, settings, color, is_eraser) ==
    IF mutex = "poisoned"
    THEN LockFails("apply_brush_stroke", doc_id, layer_id, <<points, settings, color, is_eraser>>)
    ELSE /\ mutex = "free"
         /\ IF doc_id \notin DOMAIN documents
            THEN Fails("apply_brush_stroke", doc_id, layer_id, <<points, settings, color, is_eraser>>, "DocumentNotFound")
            ELSE IF LayerIndex(documents[doc_id], layer_id) = 0
            THEN Fails("apply_brush_stroke", doc_id, layer_id, <<points, settings, color, is_eraser>>, "LayerNotFound")
            ELSE LET layer == documents[doc_id].layers[
                                  LayerIndex(documents[doc_id], layer_id)]
                 IN  IF layer.locked
                     THEN Fails("apply_brush_stroke", doc_id, layer_id, <<points, settings, color, is_eraser>>,
                                "InvalidOperation")
                     ELSE IF layer_id \notin DOMAIN pixel_data
                     THEN Fails("apply_brush_stroke", doc_id, layer_id, <<points, settings, color, is_eraser>>,
                                "LayerNotFound")
                     ELSE IF \E i \in 1..Len(points) :
                                 ~StampLoopsEnd(layer.width, layer.height,
                                                layer.x, layer.y, points[i], settings)
                     THEN \* the stamp loop runs on with the registry locked
                          /\ mutex' = "held"
                          /\ Returned("apply_brush_stroke", doc_id, layer_id, <<points, settings, color, is_eraser>>,
                                      "NoReturn")
                          /\ UNCHANGED <<documents, history, pixel_data,
                                         next_uuid, now>>
                     ELSE \E t \in now..MaxClock :
                          /\ pixel_data' = SetLayerPixels(layer_id,
                                 ApplyStamps(pixel_data[layer_id], layer.width,
                                             layer.height, layer.x, layer.y,
                                             points, 1, settings, color, is_eraser))
                          /\ documents' = [documents EXCEPT ![doc_id].modified_at = t]
                          /\ now' = t
                          /\ Returned("apply_brush_stroke", doc_id, layer_id, <<points, settings, color, is_eraser>>, "Ok")
                          /\ UNCHANGED <<history, next_uuid, mutex>>

----------------------------------------------------------------------------
(* commands/filters.rs apply_filter, apply_invert.                         *)

\* FilterParams of the two filters modelled
Invert == [type |-> "Invert"]
GaussianBlur(radius) == [type |-> "GaussianBlur", radius |-> radius]

\* chunks_exact_mut(4): only whole 4-byte chunks are visited
ApplyInvert(pixels) ==
    [i \in 1..Len(pixels) |->
        IF ((i - 1) \div 4) * 4 + 4 <= Len(pixels) /\ (i - 1) % 4 < 3
        THEN 255 - pixels[i]
        ELSE pixels[i]]

\* apply_gaussian_blur indexes pixels and output at ((y * w + x) * 4) + 0..2
\* for every pixel of the layer: an index past the end of the buffer panics.
BlurPanics(pixels, width, height, radius) ==
    /\ radius > 0
    /\ width > 0
    /\ height > 0
    /\ (Len(pixels) + 1) \div 4 < width * height

\* The horizontal box blur, radius already rounded to an integer.
ApplyGaussianBlur(pixels, width, height, radius) ==
    IF radius <= 0 \/ width = 0 \/ height = 0 THEN pixels
    ELSE [i \in 1..Len(pixels) |->
            LET c == (i - 1) % 4
                x == ((i - 1) \div 4) % width
                y == ((i - 1) \div 4) \div width
                near == {nx \in (x - radius)..(x + radius) : nx >= 0 /\ nx < width}
                Sum[S \in SUBSET near] ==
                    IF S = {} THEN 0
                    ELSE LET nx == CHOOSE n \in S : TRUE
                         IN  pixels[(y * width + nx) * 4 + c + 1] + Sum[S \ {nx}]
            IN  IF c < 3 /\ y < height
                THEN Sum[near] \div Cardinality(near)
                ELSE pixels[i]]

ApplyFilter(doc_id, layer_id, filter) ==
    IF mutex = "poisoned"
    THEN LockFails("apply_filter", doc_id, layer_id, <<filter>>)
    ELSE /\ mutex = "free"
         /\ IF doc_id \notin DOMAIN documents
            THEN Fails("apply_filter", doc_id, layer_id, <<filter>>,
                       "DocumentNotFound")
            ELSE IF LayerIndex(documents[doc_id], layer_id) = 0
            THEN Fails("apply_filter", doc_id, layer_id, <<filter>>,
                       "LayerNotFound")
            ELSE IF layer_id \notin DOMAIN pixel_data
            THEN Fails("apply_filter", doc_id, layer_id, <<filter>>,
                       "LayerNotFound")
            ELSE LET layer == documents[doc_id].layers[
                                  LayerIndex(documents[doc_id], layer_id)]
                     pixels == pixel_data[layer_id]
                 IN  IF /\ filter.type = "GaussianBlur"
                        /\ BlurPanics(pixels, layer.width, layer.height,
                                      filter.radius)
                     THEN /\ Panics("apply_filter", doc_id, layer_id, <<filter>>)
                          /\ UNCHANGED <<documents, history, pixel_data,
                                         next_uuid, now>>
                     ELSE /\ pixel_data' = SetLayerPixels(layer_id,
                                 IF filter.type = "Invert"
                                 THEN ApplyInvert(pixels)
                                 ELSE ApplyGaussianBlur(pixels, layer.width,
                                          layer.height, filter.radius))
                          /\ Returned("apply_filter", doc_id, layer_id,
                                      <<filter>>, "Ok")
                          /\ UNCHANGED <<documents, history, next_uuid, now,
                                         mutex>>

----------------------------------------------------------------------------
(* engine/history.rs push, undo, redo.  undo_stack is a VecDeque whose     *)
(* back is the end of the sequence; redo_stack is a Vec.  undo and redo    *)
(* return the entry moved, None when there is none.                        *)

\* A push that drops the newest entry when the stack is full.
PushEvictingNewest(h, entry) ==
    [h EXCEPT !.redo_stack = <<>>,
              !.undo_stack =
                  (IF Len(h.undo_stack) >= h.max_entries
                   THEN SubSeq(h.undo_stack, 1, Len(h.undo_stack) - 1)
                   ELSE h.undo_stack) \o <<entry>>]

Push(h, entry) ==
    [h EXCEPT !.redo_stack = <<>>,
              !.undo_stack =
                  (IF Len(h.undo_stack) >= h.max_entries
                   THEN Tail(h.undo_stack)     \* pop_front; a no-op when empty
                   ELSE h.undo_stack) \o <<entry>>]

Undo(h) ==
    IF h.undo_stack # <<>>
    THEN LET entry == h.undo_stack[Len(h.undo_stack)]
         IN  [h |-> [h EXCEPT
                        !.undo_stack = SubSeq(@, 1, Len(@) - 1),
                        !.redo_stack = Append(@, entry)],
              value |-> Some(entry)]
    ELSE [h |-> h, value |-> None]

Redo(h) ==
    IF h.redo_stack # <<>>
    THEN LET entry == h.redo_stack[Len(h.redo_stack)]
         IN  [h |-> [h EXCEPT
                        !.redo_stack = SubSeq(@, 1, Len(@) - 1),
                        !.undo_stack = Append(@, entry)],
              value |-> Some(entry)]
    ELSE [h |-> h, value |-> None]

----------------------------------------------------------------------------
(* io/drkr/reader.rs validate and read_all, io/drkr/types.rs to_layer,     *)
(* DocumentManager::register_loaded_document, commands/document.rs         *)
(* open_document_drkr.  An archive is given by what its entries hold: the  *)
(* mimetype text, the manifest's version, document.json and, per layer     *)
(* reference, meta.json (None when absent) and what pixels.webp decodes to *)
(* (None when absent or undecodable).                                      *)

DRKR_MIMETYPE == "application/x-drkr"

\* str::trim on the mimetype texts explored
Trim(s) ==
    IF s \in {"application/x-drkr\n", " application/x-drkr"}
    THEN "application/x-drkr" ELSE s

ToLayerType(layer_type) ==
    CASE layer_type = "raster" -> "Raster"
      [] layer_type = "adjustment" -> "Adjustment"
      [] layer_type = "group" -> "Group"
      [] layer_type = "text" -> "Text"
      [] layer_type = "shape" -> "Shape"
      [] layer_type = "ai_generated" -> "Raster"
      [] OTHER -> "Raster"

\* BlendMode and its name in meta.json
BlendModeNames ==
    <<<<"Normal", "normal">>,
      <<"Multiply", "multiply">>,
      <<"Screen", "screen">>,
      <<"Overlay", "overlay">>,
      <<"Darken", "darken">>,
      <<"Lighten", "lighten">>,
      <<"ColorDodge", "color-dodge">>,
      <<"ColorBurn", "color-burn">>,
      <<"HardLight", "hard-light">>,
      <<"SoftLight", "soft-light">>,
      <<"Difference", "difference">>,
      <<"Exclusion", "exclusion">>,
      <<"Hue", "hue">>,
      <<"Saturation", "saturation">>,
      <<"Color", "color">>,
      <<"Luminosity", "luminosity">>>>

BlendModeToString(mode) ==
    BlendModeNames[CHOOSE i \in 1..Len(BlendModeNames) :
                      BlendModeNames[i][1] = mode][2]

\* any name that is none of the 16 reads as Normal
StringToBlendMode(s) ==
    IF \E i \in 1..Len(BlendModeNames) : BlendModeNames[i][2] = s
    THEN BlendModeNames[CHOOSE i \in 1..Len(BlendModeNames) :
                           BlendModeNames[i][2] = s][1]
    ELSE "Normal"

ToLayer(meta) ==
    [id |-> meta.id, layer_type |-> ToLayerType(meta.layer_type),
     visible |-> meta.visible, locked |-> meta.locked,
     opacity |-> meta.opacity,
     blend_mode |-> StringToBlendMode(meta.blend_mode),
     x |-> meta.position.x, y |-> meta.position.y,
     width |-> meta.size.width, height |-> meta.size.height]

Validate(archive) ==
    IF Trim(archive.mimetype) # DRKR_MIMETYPE THEN "InvalidOperation"
    ELSE IF UnwrapOr(archive.major_version, 0) > 1 THEN "InvalidOperation"
    ELSE "Ok"

\* A layer loop that gives up the read when a payload cannot be read.
RECURSIVE ReadLayersStrict(_, _, _, _)
ReadLayersStrict(refs, i, layers, layer_pixels) ==
    IF i > Len(refs)
    THEN [result |-> "Ok", layers |-> layers, layer_pixels |-> layer_pixels]
    ELSE IF refs[i].meta = None
    THEN [result |-> "IoError", layers |-> <<>>, layer_pixels |-> <<>>]
    ELSE IF refs[i].layer_type \in {"raster", "ai_generated"}
            /\ refs[i].pixels = None
    THEN [result |-> "IoError", layers |-> <<>>, layer_pixels |-> <<>>]
    ELSE ReadLayersStrict(refs, i + 1, Append(layers, ToLayer(refs[i].meta[1])),
                          IF refs[i].layer_type \in {"raster", "ai_generated"}
                          THEN Insert(layer_pixels, refs[i].id, refs[i].pixels[1])
                          ELSE layer_pixels)

\* The loop of read_all over the layer references, from reference i on.
RECURSIVE ReadLayers(_, _, _, _)
ReadLayers(refs, i, layers, layer_pixels) ==
    IF i > Len(refs)
    THEN [result |-> "Ok", layers |-> layers, layer_pixels |-> layer_pixels]
    ELSE IF refs[i].meta = None
    THEN [result |-> "IoError", layers |-> <<>>, layer_pixels |-> <<>>]
    ELSE LET layer == ToLayer(refs[i].meta[1])
             pixels == IF refs[i].pixels # None THEN refs[i].pixels[1]
                       ELSE FilledBuffer(0, layer.width, layer.height)
         IN  ReadLayers(refs, i + 1, Append(layers, layer),
                        IF refs[i].layer_type \in {"raster", "ai_generated"}
                        THEN Insert(layer_pixels, refs[i].id, pixels)
                        ELSE layer_pixels)

ReadAll(archive, t) ==
    IF Validate(archive) # "Ok"
    THEN [result |-> Validate(archive)]
    ELSE LET read == ReadLayers(archive.document.layers, 1, <<>>, <<>>)
         IN  IF read.result # "Ok" THEN [result |-> read.result]
             ELSE [result |-> "Ok",
                   document |->
                      [id |-> archive.document.id,
                       width |-> archive.document.width,
                       height |-> archive.document.height,
                       resolution |-> UnwrapOr(archive.document.resolution, 72),
                       layers |-> read.layers,
                       modified_at |-> t, source_path |-> None],
                   layer_pixels |-> read.layer_pixels]

RegisterLoadedDocument(doc, layer_pixels) ==
    /\ history' = Insert(history, doc.id, HistoryManagerNew(HistoryCapacity))
    /\ pixel_data' = [id \in (DOMAIN pixel_data) \cup (DOMAIN layer_pixels) |->
                        IF id \in DOMAIN layer_pixels THEN layer_pixels[id]
                        ELSE pixel_data[id]]
    /\ documents' = Insert(documents, doc.id, doc)

\* DrkrReader::open and read_all on the file at path: a missing file and a
\* file that is no ZIP archive are I/O errors.
ReadPath(path, t) ==
    IF path \notin DOMAIN files THEN [result |-> "IoError"]
    ELSE IF files[path].kind # "zip" THEN [result |-> "IoError"]
    ELSE ReadAll(files[path], t)

\* The second half of open_document_drkr: the document read, registered
\* under the lock with its source path.
RegisterRead(path, read, t) ==
    IF mutex = "poisoned"
    THEN LockFails("open_document_drkr", NoId, NoId, <<path>>)
    ELSE /\ mutex = "free"
         /\ RegisterLoadedDocument([read.document EXCEPT !.source_path = Some(path)],
                                   read.layer_pixels)
         /\ now' = t
         /\ Returned("open_document_drkr", read.document.id, NoId, <<path>>, "Ok")
         /\ UNCHANGED <<next_uuid, mutex>>

OpenDocumentDrkr(path) ==
    \E t \in now..MaxClock :
        LET read == ReadPath(path, t)
        IN  IF read.result # "Ok"
            THEN Fails("open_document_drkr", NoId, NoId, <<path>>, read.result)
            ELSE RegisterRead(path, read, t)

----------------------------------------------------------------------------
(* The archives a session may be asked to open.                            *)

Meta(id, layer_type, locked, opacity, blend_mode, x, width, height) ==
    [id |-> id, layer_type |-> layer_type, visible |-> TRUE, locked |-> locked,
     opacity |-> opacity, blend_mode |-> blend_mode,
     position |-> [x |-> x, y |-> 0],
     size |-> [width |-> width, height |-> height]]

LayerRef(id, layer_type, meta, pixels) ==
    [id |-> id, layer_type |-> layer_type, meta |-> meta, pixels |-> pixels]

Archive(mimetype, major_version, width, height, layers) ==
    [kind |-> "zip", mimetype |-> mimetype, major_version |-> major_version,
     document |-> [id |-> 101, width |-> width, height |-> height,
                   resolution |-> Some(300), layers |-> layers]]

RasterRef(pixels) ==
    LayerRef(102, "raster",
             Some(Meta(102, "raster", FALSE, 100, "normal", 0, 1, 1)), pixels)

GroupRef ==
    LayerRef(103, "group",
             Some(Meta(103, "group", TRUE, 50, "multiply", 1, 1, 1)), None)

\* The DRKR files a session finds on disk.
ArchiveFiles ==
    [path \in {"good.drkr", "padded.drkr", "nopixels.drkr", "empty.drkr",
               "plain.drkr", "v2.drkr", "nometa.drkr"} |->
       CASE path = "good.drkr" ->
              Archive(DRKR_MIMETYPE, Some(1), 1, 1,
                      <<RasterRef(Some(<<5, 5, 5, 255>>))>>)
         [] path = "padded.drkr" ->
              Archive("application/x-drkr\n", Some(1), 1, 1,
                      <<GroupRef,
                        RasterRef(Some(<<5, 5, 5, 255, 6, 6, 6, 255>>))>>)
         [] path = "nopixels.drkr" ->
              Archive(DRKR_MIMETYPE, Some(1), 1, 1, <<RasterRef(None)>>)
         [] path = "empty.drkr" -> Archive(DRKR_MIMETYPE, None, 0, 1, <<>>)
         [] path = "plain.drkr" -> Archive("text/plain", Some(1), 1, 1, <<>>)
         [] path = "v2.drkr" ->
              Archive(DRKR_MIMETYPE, Some(2), 1, 1,
                      <<LayerRef(102, "raster", None, None)>>)
         [] path = "nometa.drkr" ->
              Archive(DRKR_MIMETYPE, Some(1), 1, 1,
                      <<LayerRef(102, "raster", None, None)>>)]

\* no command is in flight
Idle == [op |-> "idle"]

----------------------------------------------------------------------------
(* io/drkr/writer.rs write_document, write_layer, composite_layers,        *)
(* io/drkr/types.rs from_layer, from_document.  A written file is the      *)
(* sequence of entry names in the order written, together with what the    *)
(* reader finds in them.  WebP is lossless: a payload decodes to the       *)
(* width x height x 4 bytes that were encoded.                             *)

LayerTypeToString(layer_type) ==
    CASE layer_type = "Raster" -> "raster"
      [] layer_type = "Adjustment" -> "adjustment"
      [] layer_type = "Group" -> "group"
      [] layer_type = "Text" -> "text"
      [] layer_type = "Shape" -> "shape"

FromLayer(layer) ==
    [id |-> layer.id, layer_type |-> LayerTypeToString(layer.layer_type),
     visible |-> layer.visible, locked |-> layer.locked,
     opacity |-> layer.opacity,
     blend_mode |-> BlendModeToString(layer.blend_mode),
     position |-> [x |-> layer.x, y |-> layer.y],
     size |-> [width |-> layer.width, height |-> layer.height]]

\* One pixel of the merge: src_alpha is the pixel's alpha scaled by the layer
\* opacity and cast to u8.  At 255 the source pixel is copied as it is; below,
\* the f32 blend is the expression of blend_pixel.
CompositePixel(dst, src_pixel, opacity) ==
    LET src_alpha == ((src_pixel[4] * opacity) \div 100) % 256
    IN  IF src_alpha = 255 THEN src_pixel
        ELSE IF src_alpha > 0
        THEN BlendPixel(dst, src_pixel[1], src_pixel[2], src_pixel[3], src_alpha)
        ELSE dst

\* composite_layers from layer i on, over the canvas built so far.
RECURSIVE CompositeLayers(_, _, _, _)
CompositeLayers(doc, layer_pixels, i, canvas) ==
    IF i > Len(doc.layers) THEN [result |-> "Ok", pixels |-> canvas]
    ELSE LET layer == doc.layers[i]
         IN  IF ~layer.visible \/ layer.id \notin DOMAIN layer_pixels
             THEN CompositeLayers(doc, layer_pixels, i + 1, canvas)
             ELSE IF Len(layer_pixels[layer.id]) < layer.width * layer.height * 4
             THEN [result |-> "InvalidOperation", pixels |-> <<>>]
             ELSE CompositeLayers(doc, layer_pixels, i + 1,
                    [k \in 1..Len(canvas) |->
                        LET dst_x == ((k - 1) \div 4) % doc.width
                            dst_y == ((k - 1) \div 4) \div doc.width
                            x == dst_x - layer.x
                            y == dst_y - layer.y
                            at == ((dst_y * doc.width) + dst_x) * 4
                        IN  IF x >= 0 /\ x < layer.width /\ y >= 0 /\ y < layer.height
                            THEN CompositePixel(
                                    <<canvas[at + 1], canvas[at + 2],
                                      canvas[at + 3], canvas[at + 4]>>,
                                    PixelAt(layer_pixels[layer.id], layer.width,
                                            layer.height, x, y),
                                    layer.opacity)[((k - 1) % 4) + 1]
                            ELSE canvas[k]])

\* encode_rgba_to_webp: from_raw wants at least width x height x 4 bytes and
\* keeps the first width x height pixels.  Whether the encoder accepts an
\* image without pixels is the library's choice (empty_ok).
EncodeRgbaToWebp(pixels, width, height, empty_ok) ==
    IF Len(pixels) < width * height * 4 THEN [result |-> "InvalidOperation"]
    ELSE IF width * height = 0 /\ ~empty_ok THEN [result |-> "IoError"]
    ELSE [result |-> "Ok", data |-> SubSeq(pixels, 1, width * height * 4)]

\* The layer loop of write_document from layer i on: entries written so far
\* and, per layer, what a reader will find.
RECURSIVE WriteLayers(_, _, _, _, _, _)
WriteLayers(doc, layer_pixels, i, empty_ok, entries, refs) ==
    IF i > Len(doc.layers)
    THEN [result |-> "Ok", entries |-> entries, refs |-> refs]
    ELSE LET layer == doc.layers[i]
             layer_type == LayerTypeToString(layer.layer_type)
         IN  IF layer.id \notin DOMAIN layer_pixels
             THEN WriteLayers(doc, layer_pixels, i + 1, empty_ok, entries,
                              Append(refs, LayerRef(layer.id, layer_type,
                                                    None, None)))
             ELSE LET webp == EncodeRgbaToWebp(layer_pixels[layer.id],
                                  layer.width, layer.height, empty_ok)
                  IN  IF webp.result # "Ok"
                      THEN [result |-> webp.result,
                            entries |-> Append(entries, <<"meta.json", layer.id>>),
                            refs |-> refs]
                      ELSE WriteLayers(doc, layer_pixels, i + 1, empty_ok,
                              entries \o <<<<"meta.json", layer.id>>,
                                           <<"pixels.webp", layer.id>>>>,
                              Append(refs, LayerRef(layer.id, layer_type,
                                                    Some(FromLayer(layer)),
                                                    Some(webp.data))))

\* DrkrWriter::create, write_document, finish.  A write that fails leaves a
\* file that is no ZIP archive.
WriteDocument(doc, layer_pixels, empty_ok) ==
    LET head == <<<<"mimetype", NoId>>, <<"manifest.json", NoId>>,
                  <<"document.json", NoId>>>>
        previews == <<<<"preview/thumbnail.webp", NoId>>,
                      <<"preview/merged.webp", NoId>>>>
        merged == CompositeLayers(doc, layer_pixels, 1,
                                  FilledBuffer(0, doc.width, doc.height))
        preview == IF merged.result # "Ok" THEN merged
                   ELSE EncodeRgbaToWebp(merged.pixels, doc.width, doc.height,
                                         empty_ok)
        layers == WriteLayers(doc, layer_pixels, 1, empty_ok,
                              head \o previews, <<>>)
    IN  IF preview.result # "Ok"
        THEN [result |-> preview.result,
              file |-> [kind |-> "partial", entries |-> head]]
        ELSE IF layers.result # "Ok"
        THEN [result |-> layers.result,
              file |-> [kind |-> "partial", entries |-> layers.entries]]
        ELSE [result |-> "Ok",
              file |-> [kind |-> "zip", mimetype |-> DRKR_MIMETYPE,
                        major_version |-> Some(1),
                        document |-> [id |-> doc.id, width |-> doc.width,
                                      height |-> doc.height,
                                      resolution |-> Some(doc.resolution),
                                      layers |-> layers.refs],
                        entries |-> layers.entries,
                        merged |-> preview.data]]

\* DocumentManager::get_all_layer_pixels
GetAllLayerPixels(doc) ==
    [id \in LayerIds(doc) \cap DOMAIN pixel_data |-> pixel_data[id]]

----------------------------------------------------------------------------
(* commands/document.rs save_document_drkr, save_document, open_document   *)
(* and open_document_drkr, step by step: each block of a command that      *)
(* runs under the registry lock is one step and each access to the file    *)
(* system is one step; other commands run in between when the lock is      *)
(* free.                                                                   *)

\* first block: the document and its buffers are cloned under the lock
SaveDrkrSnapshot(doc_id, path) ==
    /\ mutex # "held"
    /\ task = Idle
    /\ IF mutex = "poisoned"
       THEN /\ LockFails("save_document_drkr", doc_id, NoId, <<path>>)
            /\ UNCHANGED <<files, task>>
       ELSE IF doc_id \notin DOMAIN documents
       THEN /\ Fails("save_document_drkr", doc_id, NoId, <<path>>,
                     "DocumentNotFound")
            /\ UNCHANGED <<files, task>>
       ELSE /\ task' = [op |-> "save_document_drkr", pc |-> "snapshot",
                        doc_id |-> doc_id, path |-> path,
                        doc |-> documents[doc_id],
                        layer_pixels |-> GetAllLayerPixels(documents[doc_id])]
            /\ UNCHANGED <<documents, history, pixel_data, next_uuid, now,
                           mutex, last, files>>

\* A write that reads the registry again instead of the snapshot.
SaveDrkrWriteLive ==
    /\ task.op = "save_document_drkr"
    /\ task.pc = "snapshot"
    /\ \E empty_ok \in BOOLEAN :
          LET doc == IF task.doc_id \in DOMAIN documents
                     THEN documents[task.doc_id] ELSE task.doc
              written == WriteDocument(doc, GetAllLayerPixels(doc), empty_ok)
          IN  /\ files' = Insert(files, task.path, written.file)
              /\ IF written.result = "Ok"
                 THEN /\ task' = [task EXCEPT !.pc = "written"]
                      /\ UNCHANGED last
                 ELSE /\ task' = Idle
                      /\ Returned("save_document_drkr", task.doc_id, NoId,
                                  <<task.path>>, written.result)
    /\ UNCHANGED <<documents, history, pixel_data, next_uuid, now, mutex>>

\* DrkrWriter::create, write_document, finish: no lock is taken
SaveDrkrWrite ==
    /\ task.op = "save_document_drkr"
    /\ task.pc = "snapshot"
    /\ \E empty_ok \in BOOLEAN :
          LET written == WriteDocument(task.doc, task.layer_pixels, empty_ok)
          IN  /\ files' = Insert(files, task.path, written.file)
              /\ IF written.result = "Ok"
                 THEN /\ task' = [task EXCEPT !.pc = "written"]
                      /\ UNCHANGED last
                 ELSE /\ task' = Idle
                      /\ Returned("save_document_drkr", task.doc_id, NoId,
                                  <<task.path>>, written.result)
    /\ UNCHANGED <<documents, history, pixel_data, next_uuid, now, mutex>>

\* A last block that puts the snapshot back when the document is gone.
SaveDrkrCommitReinserting ==
    /\ task.op = "save_document_drkr"
    /\ task.pc = "written"
    /\ mutex = "free"
    /\ documents' = Insert(documents, task.doc_id,
                           [task.doc EXCEPT !.source_path = Some(task.path)])
    /\ pixel_data' = [id \in (DOMAIN pixel_data) \cup (DOMAIN task.layer_pixels) |->
                         IF id \in DOMAIN pixel_data THEN pixel_data[id]
                         ELSE task.layer_pixels[id]]
    /\ history' = Insert(history, task.doc_id, HistoryManagerNew(HistoryCapacity))
    /\ ReturnedValue("save_document_drkr", task.doc_id, NoId,
                     <<task.path>>, "Ok", documents'[task.doc_id])
    /\ UNCHANGED <<next_uuid, now, mutex>>
    /\ task' = Idle
    /\ UNCHANGED files

\* last block: set_source_path and the document returned, under the lock
SaveDrkrCommit ==
    /\ task.op = "save_document_drkr"
    /\ task.pc = "written"
    /\ mutex # "held"
    /\ IF mutex = "poisoned"
       THEN LockFails("save_document_drkr", task.doc_id, NoId, <<task.path>>)
       ELSE IF task.doc_id \notin DOMAIN documents
       THEN Fails("save_document_drkr", task.doc_id, NoId, <<task.path>>,
                  "DocumentNotFound")
       ELSE /\ documents' = [documents EXCEPT
                                ![task.doc_id].source_path = Some(task.path)]
            /\ ReturnedValue("save_document_drkr", task.doc_id, NoId,
                             <<task.path>>, "Ok", documents'[task.doc_id])
            /\ UNCHANGED <<history, pixel_data, next_uuid, now, mutex>>
    /\ task' = Idle
    /\ UNCHANGED files

\* save_document up to img.save: the lock is taken and kept
SaveDocumentLock(doc_id, path) ==
    /\ mutex # "held"
    /\ task = Idle
    /\ IF mutex = "poisoned"
       THEN /\ LockFails("save_document", doc_id, NoId, <<path>>)
            /\ UNCHANGED <<files, task>>
       ELSE IF doc_id \notin DOMAIN documents
       THEN /\ Fails("save_document", doc_id, NoId, <<path>>, "DocumentNotFound")
            /\ UNCHANGED <<files, task>>
       ELSE IF \/ Len(documents[doc_id].layers) = 0
               \/ documents[doc_id].layers[1].id \notin DOMAIN pixel_data
       THEN /\ Fails("save_document", doc_id, NoId, <<path>>, "Ok")
            /\ UNCHANGED <<files, task>>
       ELSE LET layer == documents[doc_id].layers[1]
                pixels == pixel_data[layer.id]
            IN  IF Len(pixels) \div 4 < layer.width * layer.height
                THEN /\ Fails("save_document", doc_id, layer.id, <<path>>,
                              "ImageError")
                     /\ UNCHANGED <<files, task>>
                ELSE /\ mutex' = "held"
                     /\ task' = [op |-> "save_document", pc |-> "locked",
                                 doc_id |-> doc_id, path |-> path,
                                 image |-> [kind |-> "image",
                                            width |-> layer.width,
                                            height |-> layer.height,
                                            pixels |-> SubSeq(pixels, 1,
                                               layer.width * layer.height * 4)]]
                     /\ UNCHANGED <<documents, history, pixel_data, next_uuid,
                                    now, last, files>>

\* img.save(&path) and the return that drops the guard.  Whether the encoder
\* accepts an image without pixels is the library's choice.
SaveDocumentWrite ==
    /\ task.op = "save_document"
    /\ task.pc = "locked"
    /\ \E empty_ok \in BOOLEAN :
          IF task.image.width * task.image.height = 0 /\ ~empty_ok
          THEN /\ files' = Insert(files, task.path,
                                  [kind |-> "partial", entries |-> <<>>])
               /\ Returned("save_document", task.doc_id, NoId, <<task.path>>,
                           "ImageError")
          ELSE /\ files' = Insert(files, task.path, task.image)
               /\ Returned("save_document", task.doc_id, NoId, <<task.path>>,
                           "Ok")
    /\ mutex' = "free"
    /\ task' = Idle
    /\ UNCHANGED <<documents, history, pixel_data, next_uuid, now>>

\* open_document_drkr: DrkrReader::open and read_all, before the lock
OpenDrkrRead(path) ==
    /\ task = Idle
    /\ \E t \in now..MaxClock :
          LET read == ReadPath(path, t)
          IN  IF read.result # "Ok"
              THEN /\ Fails("open_document_drkr", NoId, NoId, <<path>>,
                            read.result)
                   /\ UNCHANGED task
              ELSE /\ task' = [op |-> "open_document_drkr", pc |-> "read",
                               path |-> path, read |-> read, t |-> t]
                   /\ UNCHANGED <<documents, history, pixel_data, next_uuid,
                                  now, mutex, last>>
    /\ UNCHANGED files

OpenDrkrRegister ==
    /\ task.op = "open_document_drkr"
    /\ task.pc = "read"
    /\ RegisterRead(task.path, task.read, Max(now, task.t))
    /\ task' = Idle
    /\ UNCHANGED files

\* open_document: image::open, before the lock
OpenDocumentRead(path) ==
    /\ task = Idle
    /\ IF path \notin DOMAIN files \/ files[path].kind # "image"
       THEN /\ Fails("open_document", NoId, NoId, <<path>>, "ImageError")
            /\ UNCHANGED task
       ELSE /\ task' = [op |-> "open_document", pc |-> "read", path |-> path,
                        image |-> files[path]]
            /\ UNCHANGED <<documents, history, pixel_data, next_uuid, now,
                           mutex, last>>
    /\ UNCHANGED files

\* open_document under the lock: create, then the image becomes the
\* background layer's buffer
OpenDocumentRegister ==
    /\ task.op = "open_document"
    /\ task.pc = "read"
    /\ mutex # "held"
    /\ IF mutex = "poisoned"
       THEN LockFails("open_document", NoId, NoId, <<task.path>>)
       ELSE
       /\ next_uuid + 2 <= MaxUuid
       /\ \E t \in now..MaxClock :
          LET doc_id == next_uuid + 1
              layer_id == next_uuid + 2
          IN  /\ documents' = Insert(documents, doc_id,
                     DocumentNew(doc_id, layer_id, task.image.width,
                                 task.image.height, 72, t))
              /\ history' = Insert(history, doc_id,
                                   HistoryManagerNew(HistoryCapacity))
              /\ pixel_data' = Insert(pixel_data, layer_id, task.image.pixels)
              /\ next_uuid' = next_uuid + 2
              /\ now' = t
              /\ Returned("open_document", doc_id, layer_id, <<task.path>>, "Ok")
              /\ UNCHANGED mutex
    /\ task' = Idle
    /\ UNCHANGED files

----------------------------------------------------------------------------
(* The session: any command, with arguments from small sets.               *)

DocIdInputs == (DOMAIN documents) \cup {NoId}

\* the layers of the document, and an id that is no layer of it
LayerIdInputs(doc_id) ==
    (IF doc_id \in DOMAIN documents THEN LayerIds(documents[doc_id]) ELSE {})
        \cup {NoId}

\* every id a buffer is or was stored under
StoredIdInputs ==
    UNION {LayerIds(documents[d]) : d \in DOMAIN documents}
        \cup (DOMAIN pixel_data)

CreateInputs ==
    {<<w, h, None>> : w \in Dims, h \in Dims} \cup {<<1, 1, Some(300)>>}

UpdateInputs ==
    { [NoUpdate EXCEPT !.locked = Some(TRUE)],
      [NoUpdate EXCEPT !.locked = Some(FALSE), !.x = Some(1),
                       !.opacity = Some(200)] }

\* not base64; one pixel; a buffer that is no whole pixel
PixelInputs == { None, Some(<<9, 9, 9, 9>>), Some(<<9>>) }

CropInputs ==
    { <<0, 0, 0, 1>>, <<1, 0, 1, 0>>, <<0, 0, 1, 1>>,
      <<1, 0, MaxDim, 1>>, <<-1, 0, 1, MaxDim>> }

HardBrush == [size |-> 2, hardness |-> 100, opacity |-> 100, flow |-> 100]
Red == [r |-> 255, g |-> 0, b |-> 0, a |-> 100]
Point(x, y) == [x |-> x, y |-> y, pressure |-> None]

StrokeInputs == { <<Point(0, 0)>>, <<Point(1, 0), Point(-3, 0)>> }

Init ==
    /\ documents = <<>>
    /\ history = <<>>
    /\ pixel_data = <<>>
    /\ next_uuid = 0
    /\ now = 0
    /\ mutex = "free"
    /\ last = [op |-> "new", doc_id |-> NoId, layer_id |-> NoId,
               args |-> <<>>, result |-> "Ok", value |-> <<>>]
    /\ steps = 0
    /\ files = ArchiveFiles
    /\ task = Idle
    /\ phase = [at |-> "free", before |-> <<>>]

\* A session issues at most MaxSteps commands; every command is counted.
InBudget == steps < MaxSteps

Counted ==
    /\ steps' = steps + 1
    /\ UNCHANGED <<phase, files, task>>

CreateStep ==
    /\ InBudget
    /\ \E c \in CreateInputs : Create(c[1], c[2], c[3])
    /\ Counted

OpenStep ==
    /\ InBudget
    /\ \E path \in DOMAIN files : OpenDocumentDrkr(path)
    /\ Counted

CloseStep ==
    /\ InBudget
    /\ \E doc_id \in DocIdInputs : Close(doc_id)
    /\ Counted

AddLayerStep ==
    /\ InBudget
    /\ \E doc_id \in DocIdInputs : AddLayer(doc_id)
    /\ Counted

RemoveLayerStep ==
    /\ InBudget
    /\ \E doc_id \in DocIdInputs : \E layer_id \in LayerIdInputs(doc_id) :
          RemoveLayer(doc_id, layer_id)
    /\ Counted

UpdateLayerStep ==
    /\ InBudget
    /\ \E doc_id \in DocIdInputs : \E layer_id \in LayerIdInputs(doc_id) :
       \E update \in UpdateInputs :
          UpdateLayer(doc_id, layer_id, update)
    /\ Counted

SetLayerPixelsStep ==
    /\ InBudget
    /\ \E layer_id \in StoredIdInputs, decoded \in PixelInputs :
          SetLayerPixelsBase64(layer_id, decoded)
    /\ Counted

BrushStep ==
    /\ InBudget
    /\ \E doc_id \in DocIdInputs : \E layer_id \in LayerIdInputs(doc_id) :
       \E points \in StrokeInputs, is_eraser \in BOOLEAN :
          ApplyBrushStroke(doc_id, layer_id, points, HardBrush, Red, is_eraser)
    /\ Counted

FilterStep ==
    /\ InBudget
    /\ \E doc_id \in DocIdInputs : \E layer_id \in LayerIdInputs(doc_id) :
          ApplyFilter(doc_id, layer_id, Invert)
    /\ Counted

CropStep ==
    /\ InBudget
    /\ \E doc_id \in DocIdInputs, c \in CropInputs :
          Crop(doc_id, c[1], c[2], c[3], c[4])
    /\ Counted

Next ==
    \/ CreateStep
    \/ OpenStep
    \/ CloseStep
    \/ AddLayerStep
    \/ RemoveLayerStep
    \/ UpdateLayerStep
    \/ SetLayerPixelsStep
    \/ BrushStep
    \/ FilterStep
    \/ CropStep

Spec == Init /\ [][Next]_vars

----------------------------------------------------------------------------
(* A crop scenario on larger canvases: set a document up, edit it at most  *)
(* once, crop or expand it, then ask for the inverse rectangle.  phase     *)
(* records the registry as it was before the first crop.                   *)

CropDim == 4     \* canvases of the scenario: 1..CropDim squared
ScenarioSteps == 4   \* commands in a scenario

ScenarioSizes == {<<d, d>> : d \in 1..CropDim} \cup {<<2, 1>>}

\* byte i of the buffer is i: every pixel of the layer differs from the others
Gradient(width, height) == [i \in 1..(width * height * 4) |-> i % 256]

CropRects(doc) ==
    {<<x, y, w, h>> : x \in {-1, 0, 1}, y \in {-1, 0, 1},
                      w \in {1, doc.width, doc.width + 2},
                      h \in {1, doc.height, doc.height + 2}}

InitCrop ==
    /\ documents = <<>>
    /\ history = <<>>
    /\ pixel_data = <<>>
    /\ next_uuid = 0
    /\ now = 0
    /\ mutex = "free"
    /\ last = [op |-> "new", doc_id |-> NoId, layer_id |-> NoId,
               args |-> <<>>, result |-> "Ok", value |-> <<>>]
    /\ steps = 0
    /\ files = ArchiveFiles
    /\ task = Idle
    /\ phase = [at |-> "setup", before |-> <<>>]

\* A scenario command is counted too; when it succeeds the scenario moves on.
Moves(from, to) ==
    /\ steps' = steps + 1
    /\ phase' = [phase EXCEPT !.at = IF last'.result = "Ok" THEN to ELSE from]
    /\ UNCHANGED <<files, task>>

ScenarioCreate ==
    /\ phase.at = "setup"
    /\ steps < ScenarioSteps
    /\ \E size \in ScenarioSizes : Create(size[1], size[2], None)
    /\ Moves("setup", "edit")

ScenarioOpen ==
    /\ phase.at = "setup"
    /\ steps < ScenarioSteps
    /\ \E path \in DOMAIN files : OpenDocumentDrkr(path)
    /\ Moves("setup", "edit")

\* an edit leaves room for the crop and its inverse
ScenarioPaint ==
    /\ phase.at = "edit"
    /\ steps + 2 < ScenarioSteps
    /\ \E doc_id \in DOMAIN documents :
       \E i \in 1..Len(documents[doc_id].layers) :
          LET layer == documents[doc_id].layers[i]
          IN  SetLayerPixelsBase64(layer.id,
                                   Some(Gradient(layer.width, layer.height)))
    /\ Moves("edit", "edit")

ScenarioMove ==
    /\ phase.at = "edit"
    /\ steps + 2 < ScenarioSteps
    /\ \E doc_id \in DOMAIN documents :
       \E layer_id \in LayerIds(documents[doc_id]) :
       \E update \in UpdateInputs :
          UpdateLayer(doc_id, layer_id, update)
    /\ Moves("edit", "edit")

ScenarioAddLayer ==
    /\ phase.at = "edit"
    /\ steps + 2 < ScenarioSteps
    /\ \E doc_id \in DOMAIN documents : AddLayer(doc_id)
    /\ Moves("edit", "edit")

ScenarioCrop ==
    /\ phase.at = "edit"
    /\ steps < ScenarioSteps
    /\ \E doc_id \in DOMAIN documents :
       \E rect \in CropRects(documents[doc_id]) :
          /\ Crop(doc_id, rect[1], rect[2], rect[3], rect[4])
          /\ phase' = IF last'.result = "Ok"
                      THEN [at |-> "cropped",
                            before |-> [documents |-> documents,
                                        pixel_data |-> pixel_data,
                                        doc_id |-> doc_id, rect |-> rect]]
                      ELSE phase
    /\ steps' = steps + 1
    /\ UNCHANGED <<files, task>>

\* crop(-cx, -cy, W, H): the rectangle the original canvas has on the cropped one
ScenarioExpand ==
    /\ phase.at = "cropped"
    /\ steps < ScenarioSteps
    /\ LET before == phase.before
           original == before.documents[before.doc_id]
       IN  Crop(before.doc_id, -before.rect[1], -before.rect[2],
                original.width, original.height)
    /\ Moves("cropped", "restored")

NextCrop ==
    \/ ScenarioCreate
    \/ ScenarioOpen
    \/ ScenarioPaint
    \/ ScenarioMove
    \/ ScenarioAddLayer
    \/ ScenarioCrop
    \/ ScenarioExpand

SpecCrop == InitCrop /\ [][NextCrop]_vars

----------------------------------------------------------------------------
(* A brush scenario on a larger canvas: create a document, optionally add  *)
(* a transparent layer or move a layer, then paint.                        *)

BrushDim == 4      \* the canvas of the scenario is BrushDim squared
BrushStrokes == 2  \* strokes painted in a scenario

Hard4 == [size |-> 4, hardness |-> 100, opacity |-> 100, flow |-> 100]
Soft4 == [size |-> 4, hardness |-> 50, opacity |-> 100, flow |-> 100]
Blue == [r |-> 0, g |-> 0, b |-> 255, a |-> 100]

BrushSizes == {<<BrushDim, BrushDim>>, <<1, 1>>, <<1, 0>>}

Stroke(points, settings, color, is_eraser) ==
    [points |-> points, settings |-> settings, color |-> color,
     is_eraser |-> is_eraser]

\* dabs inside, on the corner, left of, above and right of the canvas
BrushStrokeInputs ==
    {Stroke(<<Point(p[1], p[2])>>, Hard4, c, FALSE) :
        p \in {<<2, 2>>, <<3, 2>>, <<0, 0>>}, c \in {Red, Blue}}
    \cup {Stroke(<<Point(p[1], p[2])>>, Hard4, Red, FALSE) :
        p \in {<<-3, 0>>, <<1, -3>>, <<BrushDim + 3, 1>>}}
    \cup {Stroke(<<Point(p[1], p[2])>>, Soft4, Red, FALSE) :
        p \in {<<2, 2>>, <<0, 0>>}}
    \cup {Stroke(points, HardBrush, Red, FALSE) : points \in StrokeInputs}
    \cup {Stroke(<<Point(2, 2)>>, b, Red, TRUE) : b \in {Hard4, Soft4}}
    \cup {Stroke(<<Point(0, 0), Point(3, 2)>>, Hard4, Blue, FALSE)}

BrushCreate ==
    /\ phase.at = "setup"
    /\ \E size \in BrushSizes : Create(size[1], size[2], None)
    /\ Moves("setup", "edit")

BrushAddLayer ==
    /\ phase.at = "edit"
    /\ \E doc_id \in DOMAIN documents : AddLayer(doc_id)
    /\ Moves("edit", "paint")

BrushMove ==
    /\ phase.at = "edit"
    /\ \E doc_id \in DOMAIN documents :
       \E layer_id \in LayerIds(documents[doc_id]) :
          UpdateLayer(doc_id, layer_id, [NoUpdate EXCEPT !.x = Some(1)])
    /\ Moves("edit", "paint")

BrushPaint ==
    /\ phase.at \in {"edit", "paint"}
    /\ phase.before < BrushStrokes
    /\ \E doc_id \in DOMAIN documents :
       \E layer_id \in LayerIds(documents[doc_id]) :
       \E s \in BrushStrokeInputs :
          ApplyBrushStroke(doc_id, layer_id, s.points, s.settings, s.color,
                           s.is_eraser)
    /\ steps' = steps + 1
    /\ phase' = [at |-> "paint", before |-> phase.before + 1]
    /\ UNCHANGED <<files, task>>

InitBrush ==
    /\ documents = <<>>
    /\ history = <<>>
    /\ pixel_data = <<>>
    /\ next_uuid = 0
    /\ now = 0
    /\ mutex = "free"
    /\ last = [op |-> "new", doc_id |-> NoId, layer_id |-> NoId,
               args |-> <<>>, result |-> "Ok", value |-> <<>>]
    /\ steps = 0
    /\ files = ArchiveFiles
    /\ task = Idle
    /\ phase = [at |-> "setup", before |-> 0]

NextBrush ==
    \/ BrushCreate
    \/ BrushAddLayer
    \/ BrushMove
    \/ BrushPaint

SpecBrush == InitBrush /\ [][NextBrush]_vars

----------------------------------------------------------------------------
(* A save and open scenario: documents are created or opened from the      *)
(* files on disk, edited, saved and opened again, the steps of a save or    *)
(* open interleaved with the other commands.                                *)

IoSteps == 3   \* commands started in a scenario

IoFiles ==
    [path \in (DOMAIN ArchiveFiles) \cup {"two.drkr", "in.png"} |->
       CASE path = "two.drkr" ->
              Archive(DRKR_MIMETYPE, Some(0), 2, 1,
                 <<RasterRef(None),
                   LayerRef(104, "raster",
                            Some(Meta(104, "raster", FALSE, 150, "luminosity",
                                      1, 1, 1)),
                            Some(<<7, 8, 9, 170>>))>>)
         [] path = "in.png" ->
              [kind |-> "image", width |-> 1, height |-> 1,
               pixels |-> <<1, 2, 3, 255>>]
         [] OTHER -> ArchiveFiles[path]]

InitIo ==
    /\ documents = <<>>
    /\ history = <<>>
    /\ pixel_data = <<>>
    /\ next_uuid = 0
    /\ now = 0
    /\ mutex = "free"
    /\ last = [op |-> "new", doc_id |-> NoId, layer_id |-> NoId,
               args |-> <<>>, result |-> "Ok", value |-> <<>>]
    /\ steps = 0
    /\ files = IoFiles
    /\ task = Idle
    /\ phase = [at |-> "free", before |-> <<>>]

IoCreate ==
    /\ steps < IoSteps
    /\ Create(1, 1, None)
    /\ Counted

IoClose ==
    /\ steps < IoSteps
    /\ \E doc_id \in DOMAIN documents : Close(doc_id)
    /\ Counted

IoSetLayerPixels ==
    /\ steps < IoSteps
    /\ \E layer_id \in StoredIdInputs :
          SetLayerPixelsBase64(layer_id, Some(<<9>>))
    /\ Counted

IoUpdateLayer ==
    /\ steps < IoSteps
    /\ \E doc_id \in DOMAIN documents :
       \E layer_id \in LayerIds(documents[doc_id]) :
       \E update \in {[NoUpdate EXCEPT !.x = Some(-1), !.opacity = Some(50),
                                         !.blend_mode = Some("HardLight")],
                        [NoUpdate EXCEPT !.visible = Some(FALSE)]} :
          UpdateLayer(doc_id, layer_id, update)
    /\ Counted

IoSaveDrkr ==
    /\ steps < IoSteps
    /\ \E doc_id \in DocIdInputs : SaveDrkrSnapshot(doc_id, "out.drkr")
    /\ steps' = steps + 1
    /\ UNCHANGED phase

IoSaveDrkrWrite ==
    /\ SaveDrkrWrite
    /\ UNCHANGED <<steps, phase>>

IoSaveDrkrCommit ==
    /\ SaveDrkrCommit
    /\ UNCHANGED <<steps, phase>>

IoSave ==
    /\ steps < IoSteps
    /\ \E doc_id \in DocIdInputs : SaveDocumentLock(doc_id, "out.png")
    /\ steps' = steps + 1
    /\ UNCHANGED phase

IoSaveWrite ==
    /\ SaveDocumentWrite
    /\ UNCHANGED <<steps, phase>>

IoOpenDrkr ==
    /\ steps < IoSteps
    /\ \E path \in (DOMAIN files) \cup {"missing"} : OpenDrkrRead(path)
    /\ steps' = steps + 1
    /\ UNCHANGED phase

IoOpenDrkrRegister ==
    /\ OpenDrkrRegister
    /\ UNCHANGED <<steps, phase>>

IoOpen ==
    /\ steps < IoSteps
    /\ \E path \in {"in.png", "out.png", "good.drkr"} : OpenDocumentRead(path)
    /\ steps' = steps + 1
    /\ UNCHANGED phase

IoOpenRegister ==
    /\ OpenDocumentRegister
    /\ UNCHANGED <<steps, phase>>

NextIo ==
    \/ IoCreate
    \/ IoClose
    \/ IoSetLayerPixels
    \/ IoUpdateLayer
    \/ IoSaveDrkr
    \/ IoSaveDrkrWrite
    \/ IoSaveDrkrCommit
    \/ IoSave
    \/ IoSaveWrite
    \/ IoOpenDrkr
    \/ IoOpenDrkrRegister
    \/ IoOpen
    \/ IoOpenRegister

SpecIo == InitIo /\ [][NextIo]_vars

----------------------------------------------------------------------------
(* A session with hostile arguments under either build profile: sizes      *)
(* whose byte count does not fit u32, buffers shorter than their layer,    *)
(* unknown ids, indices out of range.  A command that panics under the     *)
(* lock poisons it; every command is then issued against the poisoned      *)
(* lock.                                                                   *)

FaultSteps == 3    \* commands started in a session
HugeDim == 32768   \* HugeDim * HugeDim * 4 = 2^32

\* documents whose canvas the writer can allocate
SmallDocIds == {d \in DOMAIN documents :
                  ~Overflows(documents[d].width, documents[d].height)}

InitFault ==
    /\ documents = <<>>
    /\ history = <<>>
    /\ pixel_data = <<>>
    /\ next_uuid = 0
    /\ now = 0
    /\ mutex = "free"
    /\ last = [op |-> "new", doc_id |-> NoId, layer_id |-> NoId,
               args |-> <<>>, result |-> "Ok", value |-> <<>>]
    /\ steps = 0
    /\ files = IoFiles
    /\ task = Idle
    /\ \E build \in {"overflow-checks", "wrapping"} :
          phase = [at |-> build, before |-> <<>>]

FaultCreate ==
    /\ steps < FaultSteps
    /\ \E c \in {<<2, 1>>, <<HugeDim, HugeDim>>} : Create(c[1], c[2], None)
    /\ Counted

FaultGet ==
    /\ steps < FaultSteps
    /\ \E doc_id \in DocIdInputs : GetDocument(doc_id)
    /\ Counted

FaultList ==
    /\ steps < FaultSteps
    /\ ListDocuments
    /\ Counted

FaultClose ==
    /\ steps < FaultSteps
    /\ \E doc_id \in DocIdInputs : Close(doc_id)
    /\ Counted

FaultSetPath ==
    /\ steps < FaultSteps
    /\ \E doc_id \in DocIdInputs : SetDocumentPath(doc_id, "out.drkr")
    /\ Counted

FaultAddLayer ==
    /\ steps < FaultSteps
    /\ \E doc_id \in DocIdInputs : AddLayer(doc_id)
    /\ Counted

FaultRemoveLayer ==
    /\ steps < FaultSteps
    /\ \E doc_id \in DocIdInputs : \E layer_id \in LayerIdInputs(doc_id) :
          RemoveLayer(doc_id, layer_id)
    /\ Counted

FaultUpdateLayer ==
    /\ steps < FaultSteps
    /\ \E doc_id \in DocIdInputs : \E layer_id \in LayerIdInputs(doc_id) :
          UpdateLayer(doc_id, layer_id, [NoUpdate EXCEPT !.x = Some(-1)])
    /\ Counted

FaultReorder ==
    /\ steps < FaultSteps
    /\ \E doc_id \in DocIdInputs, from_index \in 0..2, to_index \in 0..3 :
          ReorderLayers(doc_id, from_index, to_index)
    /\ Counted

FaultGetPixels ==
    /\ steps < FaultSteps
    /\ \E layer_id \in StoredIdInputs \cup {NoId} :
          GetLayerPixelsCommand(layer_id)
    /\ Counted

FaultSetPixels ==
    /\ steps < FaultSteps
    /\ \E layer_id \in StoredIdInputs \cup {NoId} :
       \E decoded \in {None, Some(<<9, 9, 9>>)} :
          SetLayerPixelsBase64(layer_id, decoded)
    /\ Counted

FaultBrush ==
    /\ steps < FaultSteps
    /\ \E doc_id \in DocIdInputs : \E layer_id \in LayerIdInputs(doc_id) :
          ApplyBrushStroke(doc_id, layer_id, <<Point(1, 0)>>, HardBrush, Red,
                           FALSE)
    /\ Counted

FaultFilter ==
    /\ steps < FaultSteps
    /\ \E doc_id \in DocIdInputs : \E layer_id \in LayerIdInputs(doc_id) :
       \E filter \in {Invert, GaussianBlur(1)} :
          ApplyFilter(doc_id, layer_id, filter)
    /\ Counted

FaultCrop ==
    /\ steps < FaultSteps
    /\ \E doc_id \in DocIdInputs :
       \E c \in {<<0, 0, 0, 1>>, <<-1, 0, 1, 1>>, <<0, 0, HugeDim, HugeDim>>} :
          Crop(doc_id, c[1], c[2], c[3], c[4])
    /\ Counted

FaultSaveDrkr ==
    /\ steps < FaultSteps
    /\ \E doc_id \in SmallDocIds \cup {NoId} :
          SaveDrkrSnapshot(doc_id, "out.drkr")
    /\ steps' = steps + 1
    /\ UNCHANGED phase

FaultSaveDrkrWrite ==
    /\ SaveDrkrWrite
    /\ UNCHANGED <<steps, phase>>

FaultSaveDrkrCommit ==
    /\ SaveDrkrCommit
    /\ UNCHANGED <<steps, phase>>

FaultSave ==
    /\ steps < FaultSteps
    /\ \E doc_id \in DocIdInputs : SaveDocumentLock(doc_id, "out.png")
    /\ steps' = steps + 1
    /\ UNCHANGED phase

FaultSaveWrite ==
    /\ SaveDocumentWrite
    /\ UNCHANGED <<steps, phase>>

FaultOpenDrkr ==
    /\ steps < FaultSteps
    /\ \E path \in {"good.drkr", "two.drkr", "missing"} : OpenDrkrRead(path)
    /\ steps' = steps + 1
    /\ UNCHANGED phase

FaultOpenDrkrRegister ==
    /\ OpenDrkrRegister
    /\ UNCHANGED <<steps, phase>>

FaultOpen ==
    /\ steps < FaultSteps
    /\ \E path \in {"in.png", "missing"} : OpenDocumentRead(path)
    /\ steps' = steps + 1
    /\ UNCHANGED phase

FaultOpenRegister ==
    /\ OpenDocumentRegister
    /\ UNCHANGED <<steps, phase>>

NextFault ==
    \/ FaultCreate
    \/ FaultGet
    \/ FaultList
    \/ FaultClose
    \/ FaultSetPath
    \/ FaultAddLayer
    \/ FaultRemoveLayer
    \/ FaultUpdateLayer
    \/ FaultReorder
    \/ FaultGetPixels
    \/ FaultSetPixels
    \/ FaultBrush
    \/ FaultFilter
    \/ FaultCrop
    \/ FaultSaveDrkr
    \/ FaultSaveDrkrWrite
    \/ FaultSaveDrkrCommit
    \/ FaultSave
    \/ FaultSaveWrite
    \/ FaultOpenDrkr
    \/ FaultOpenDrkrRegister
    \/ FaultOpen
    \/ FaultOpenRegister

SpecFault == InitFault /\ [][NextFault]_vars

----------------------------------------------------------------------------
(* The history manager of one document, as DocumentManager::create makes   *)
(* it, driven through its own interface: entries are numbered in the order *)
(* they are pushed.  steps counts the undos and redos.                     *)

MaxPushes == 52    \* entries pushed in a session
MaxRewinds == 3    \* undos and redos in a session

HistoryDoc == 1

InitHistory ==
    /\ documents = <<>>
    /\ history = (HistoryDoc :> HistoryManagerNew(HistoryCapacity))
    /\ pixel_data = <<>>
    /\ next_uuid = 0
    /\ now = 0
    /\ mutex = "free"
    /\ last = [op |-> "new", doc_id |-> HistoryDoc, layer_id |-> NoId,
               args |-> <<>>, result |-> "Ok", value |-> <<>>]
    /\ steps = 0
    /\ files = <<>>
    /\ task = Idle
    /\ phase = [at |-> "history", before |-> <<>>]

HistoryPush ==
    /\ next_uuid < MaxPushes
    /\ next_uuid' = next_uuid + 1
    /\ history' = [history EXCEPT ![HistoryDoc] = Push(@, next_uuid + 1)]
    /\ ReturnedValue("push", HistoryDoc, NoId, <<next_uuid + 1>>, "Ok", None)
    /\ UNCHANGED <<documents, pixel_data, now, mutex, steps, phase, files, task>>

HistoryUndo ==
    /\ steps < MaxRewinds
    /\ steps' = steps + 1
    /\ history' = [history EXCEPT ![HistoryDoc] = Undo(@).h]
    /\ ReturnedValue("undo", HistoryDoc, NoId, <<>>, "Ok",
                     Undo(history[HistoryDoc]).value)
    /\ phase' = [phase EXCEPT !.before = history[HistoryDoc]]
    /\ UNCHANGED <<documents, pixel_data, next_uuid, now, mutex, files, task>>

HistoryRedo ==
    /\ steps < MaxRewinds
    /\ steps' = steps + 1
    /\ history' = [history EXCEPT ![HistoryDoc] = Redo(@).h]
    /\ ReturnedValue("redo", HistoryDoc, NoId, <<>>, "Ok",
                     Redo(history[HistoryDoc]).value)
    /\ UNCHANGED <<documents, pixel_data, next_uuid, now, mutex, phase, files,
                   task>>

NextHistory ==
    \/ HistoryPush
    \/ HistoryUndo
    \/ HistoryRedo

SpecHistory == InitHistory /\ [][NextHistory]_vars

----------------------------------------------------------------------------
(* What a layer shows.  io/drkr/writer.rs composite_layers and             *)
(* commands/brush.rs apply_brush_stamp place buffer pixel (x, y) of a      *)
(* layer at document coordinate (layer.x + x, layer.y + y).                *)

\* The pixel a layer shows at document coordinate (px, py), given the store.
Shows(layer, store, px, py) ==
    IF layer.id \in DOMAIN store
    THEN PixelAt(store[layer.id], layer.width, layer.height,
                 px - layer.x, py - layer.y)
    ELSE Transparent

----------------------------------------------------------------------------
(* Claims about crop, checked on the crop scenario (SpecCrop).             *)

\* C1: after a successful crop(doc, crop_x, crop_y, new_width, new_height),
\* every layer shows at every coordinate (px, py) of the new canvas the pixel
\* it showed before the crop at old coordinate (px + crop_x, py + crop_y).
C1_CropKeepsEffectivePosition ==
    [][(last'.op = "crop" /\ last'.result = "Ok") =>
          LET old == documents[last'.doc_id]
              new == documents'[last'.doc_id]
              crop_x == last'.args[1]
              crop_y == last'.args[2]
          IN  \A i \in 1..Len(new.layers) :
              \A px \in 0..(new.width - 1), py \in 0..(new.height - 1) :
                  Shows(new.layers[i], pixel_data', px, py)
                      = Shows(old.layers[i], pixel_data,
                              px + crop_x, py + crop_y)]_vars

\* Whether buffer pixel (x, y) of a layer at (layer_x, layer_y) lay inside
\* the crop rectangle <<cx, cy, w, h>>.
InRect(rect, layer_x, layer_y, x, y) ==
    /\ layer_x + x >= rect[1] /\ layer_x + x < rect[1] + rect[3]
    /\ layer_y + y >= rect[2] /\ layer_y + y < rect[2] + rect[4]

\* C2: for a W x H document, crop(cx, cy, w, h) with the rectangle inside the
\* canvas followed by crop(-cx, -cy, W, H) leaves every layer with a buffer in
\* which each pixel that lay inside the rectangle has its original 4 bytes at
\* its original coordinate, and every other pixel is (0, 0, 0, 0).
C2_CropThenExpandRoundTrip ==
    (phase.at = "restored" /\ last.op = "crop" /\ last.result = "Ok") =>
        LET before == phase.before
            rect == before.rect
            original == before.documents[before.doc_id]
            inside == /\ rect[1] >= 0 /\ rect[1] + rect[3] <= original.width
                      /\ rect[2] >= 0 /\ rect[2] + rect[4] <= original.height
        IN  inside =>
            \A i \in 1..Len(original.layers) :
                LET layer == original.layers[i]
                IN  layer.id \in DOMAIN before.pixel_data =>
                    /\ layer.id \in DOMAIN pixel_data
                    /\ \A x \in 0..(original.width - 1),
                          y \in 0..(original.height - 1) :
                          PixelAt(pixel_data[layer.id], original.width,
                                  original.height, x, y)
                            = IF InRect(rect, layer.x, layer.y, x, y)
                              THEN PixelAt(before.pixel_data[layer.id],
                                           layer.width, layer.height, x, y)
                              ELSE Transparent

\* The buffer the code is said to leave for a layer: new pixel (nx, ny) is the
\* old buffer's pixel at (crop_x + nx - old_x, crop_y + ny - old_y) inside the
\* old layer bounds, (0, 0, 0, 0) elsewhere; a layer without a buffer has no
\* pixel to give.
CroppedBufferIs(new_pixels, old_layer, old_store, rect) ==
    /\ Len(new_pixels) = rect[3] * rect[4] * 4
    /\ \A nx \in 0..(rect[3] - 1), ny \in 0..(rect[4] - 1) :
          PixelAt(new_pixels, rect[3], rect[4], nx, ny)
              = Shows(old_layer, old_store, rect[1] + nx, rect[2] + ny)

\* the 6 x 6 buffer that is 255 on (1,1)..(4,4) and 0 elsewhere
ExpandedWhite ==
    [i \in 1..144 |->
        LET nx == ((i - 1) \div 4) % 6
            ny == ((i - 1) \div 4) \div 6
        IN  IF nx >= 1 /\ nx <= 4 /\ ny >= 1 /\ ny <= 4 THEN 255 ELSE 0]

\* C3: after a successful crop the document is new_width x new_height, every
\* layer has that size and position (old_x - crop_x, old_y - crop_y), every
\* layer (one without a stored buffer included) has a buffer of length
\* new_width * new_height * 4 holding the old pixels of the rectangle and
\* zeros elsewhere, and layers_affected lists the layer ids in document order;
\* create(4,4) then crop(-1,-1,6,6) gives 255 on (1,1)..(4,4) and 0 elsewhere.
C3_CropPostcondition ==
    [][(last'.op = "crop" /\ last'.result = "Ok") =>
          LET old == documents[last'.doc_id]
              new == documents'[last'.doc_id]
              rect == last'.args
          IN  /\ new.width = rect[3]
              /\ new.height = rect[4]
              /\ Len(new.layers) = Len(old.layers)
              /\ \A i \in 1..Len(old.layers) :
                    /\ new.layers[i].id = old.layers[i].id
                    /\ new.layers[i].width = rect[3]
                    /\ new.layers[i].height = rect[4]
                    /\ new.layers[i].x = old.layers[i].x - rect[1]
                    /\ new.layers[i].y = old.layers[i].y - rect[2]
                    /\ old.layers[i].id \in DOMAIN pixel_data'
                    /\ CroppedBufferIs(pixel_data'[old.layers[i].id],
                                       old.layers[i], pixel_data, rect)
              /\ last'.value.new_width = rect[3]
              /\ last'.value.new_height = rect[4]
              /\ last'.value.layers_affected
                    = [i \in 1..Len(old.layers) |-> old.layers[i].id]
              /\ (/\ last.op = "create"
                  /\ last.args = <<4, 4, None>>
                  /\ last'.doc_id = last.doc_id
                  /\ rect = <<-1, -1, 6, 6>>)
                    => pixel_data'[last.layer_id] = ExpandedWhite]_vars

\* C3 witness: a fresh 4 x 4 document has been expanded by crop(-1,-1,6,6).
C3_Witness ==
    /\ phase.at = "cropped"
    /\ last.op = "crop"
    /\ last.result = "Ok"
    /\ last.args = <<-1, -1, 6, 6>>
    /\ phase.before.documents[last.doc_id].width = 4
    /\ phase.before.documents[last.doc_id].height = 4
    /\ Len(documents[last.doc_id].layers) = 1
    /\ pixel_data[documents[last.doc_id].layers[1].id] = ExpandedWhite

----------------------------------------------------------------------------
(* Claims about the registry, checked on unscripted sessions (Spec).       *)

\* C4: in every reachable state, every layer of every open document that has
\* a stored buffer has a buffer of length exactly width * height * 4.
C4_BufferLengthInvariant ==
    \A doc_id \in DOMAIN documents :
    \A i \in 1..Len(documents[doc_id].layers) :
        LET layer == documents[doc_id].layers[i]
        IN  layer.id \in DOMAIN pixel_data =>
                Len(pixel_data[layer.id]) = layer.width * layer.height * 4

\* C5: after remove_layer(doc_id, layer_id) succeeds the pixel store holds no
\* buffer under layer_id: get_layer_pixels(layer_id) fails with LayerNotFound
\* (so that a later close has no buffer of the document to leave behind).
C5_RemoveLayerRemovesBuffer ==
    [][(last'.op = "remove_layer" /\ last'.result = "Ok") =>
          /\ last'.layer_id \notin DOMAIN pixel_data'
          /\ (GetLayerPixels(last.layer_id).result)' = "LayerNotFound"]_vars

\* C6: close(id) on an open document removes the document, the buffers of all
\* layers currently in it and its history entry and leaves every other
\* document, buffer and history unchanged; close(id) on an id that is not open
\* returns DocumentNotFound and changes nothing.
C6_CloseFrame ==
    [][last'.op = "close" =>
          LET id == last'.doc_id
          IN  IF id \in DOMAIN documents
              THEN LET gone == LayerIds(documents[id])
                   IN  /\ last'.result = "Ok"
                       /\ DOMAIN documents' = (DOMAIN documents) \ {id}
                       /\ \A d \in DOMAIN documents' :
                             documents'[d] = documents[d]
                       /\ DOMAIN history' = (DOMAIN history) \ {id}
                       /\ \A d \in DOMAIN history' : history'[d] = history[d]
                       /\ DOMAIN pixel_data' = (DOMAIN pixel_data) \ gone
                       /\ \A k \in DOMAIN pixel_data' :
                             pixel_data'[k] = pixel_data[k]
              ELSE /\ last'.result = "DocumentNotFound"
                   /\ UNCHANGED registry]_vars

\* C6 witness: a document was closed while another stays open with its buffer.
C6_Witness ==
    /\ last.op = "close"
    /\ last.result = "Ok"
    /\ last.doc_id \notin DOMAIN documents
    /\ \E d \in DOMAIN documents :
          /\ d \in DOMAIN history
          /\ \E i \in 1..Len(documents[d].layers) :
                documents[d].layers[i].id \in DOMAIN pixel_data

\* C7: create registers a new document whose id differs from every open
\* document's id, with exactly one Raster layer at (0,0) of size width x height
\* (visible, unlocked, opacity 100, blend Normal), a stored buffer of length
\* width * height * 4 with every byte 255, and an empty history; resolution
\* defaults to 72 when omitted.
C7_CreatePostcondition ==
    [][last'.op = "create" =>
          LET id == last'.doc_id
              width == last'.args[1]
              height == last'.args[2]
              resolution == last'.args[3]
          IN  /\ last'.result = "Ok"
              /\ id \notin DOMAIN documents
              /\ id \in DOMAIN documents'
              /\ documents'[id].id = id
              /\ documents'[id].width = width
              /\ documents'[id].height = height
              /\ documents'[id].resolution
                    = (IF resolution = None THEN 72 ELSE resolution[1])
              /\ Len(documents'[id].layers) = 1
              /\ LET layer == documents'[id].layers[1]
                 IN  /\ layer.layer_type = "Raster"
                     /\ layer.x = 0 /\ layer.y = 0
                     /\ layer.width = width /\ layer.height = height
                     /\ layer.visible /\ ~layer.locked
                     /\ layer.opacity = 100
                     /\ layer.blend_mode = "Normal"
                     /\ layer.id \in DOMAIN pixel_data'
                     /\ Len(pixel_data'[layer.id]) = width * height * 4
                     /\ \A i \in 1..(width * height * 4) :
                           pixel_data'[layer.id][i] = 255
              /\ id \in DOMAIN history'
              /\ history'[id].undo_stack = <<>>
              /\ history'[id].redo_stack = <<>>]_vars

\* C7 witness: a document with pixels was created, with the resolution
\* omitted, while another document was open.
C7_Witness ==
    /\ last.op = "create"
    /\ last.args = <<1, 1, None>>
    /\ last.doc_id \in DOMAIN documents
    /\ documents[last.doc_id].resolution = 72
    /\ pixel_data[last.layer_id] = <<255, 255, 255, 255>>
    /\ Cardinality(DOMAIN documents) = 2

\* C8: every document in the registry has width > 0 and height > 0 in every
\* reachable state, whatever create, crop and DRKR open are called with.
C8_DocumentDimensionsPositive ==
    \A doc_id \in DOMAIN documents :
        documents[doc_id].width > 0 /\ documents[doc_id].height > 0

\* C9: crop with width = 0 or height = 0 returns InvalidOperation, and crop
\* (with non-zero dimensions) on a document id that is not open returns
\* DocumentNotFound; in both cases nothing in the registry changes.
C9_CropErrors ==
    [][last'.op = "crop" =>
          LET width == last'.args[3]
              height == last'.args[4]
          IN  /\ (width = 0 \/ height = 0) =>
                    /\ last'.result = "InvalidOperation"
                    /\ UNCHANGED registry
              /\ (width > 0 /\ height > 0
                    /\ last'.doc_id \notin DOMAIN documents) =>
                    /\ last'.result = "DocumentNotFound"
                    /\ UNCHANGED registry]_vars

\* C9 witness: a crop to zero width or height of an open document that has a
\* layer with pixels was refused.
C9_Witness ==
    /\ last.op = "crop"
    /\ last.result = "InvalidOperation"
    /\ last.doc_id \in DOMAIN documents
    /\ \E i \in 1..Len(documents[last.doc_id].layers) :
          LET id == documents[last.doc_id].layers[i].id
          IN  id \in DOMAIN pixel_data /\ Len(pixel_data[id]) > 0

\* C10: apply_brush_stroke on a locked layer returns InvalidOperation, on an
\* unknown document DocumentNotFound and on a layer id not in that document
\* LayerNotFound; on every such error the stored buffers and the documents
\* (modified_at included) are unchanged.
C10_BrushErrors ==
    [][last'.op = "apply_brush_stroke" =>
          LET doc_id == last'.doc_id
              layer_id == last'.layer_id
              known == doc_id \in DOMAIN documents
              index == IF known THEN LayerIndex(documents[doc_id], layer_id)
                       ELSE 0
          IN  /\ ~known => last'.result = "DocumentNotFound"
              /\ (known /\ index = 0) => last'.result = "LayerNotFound"
              /\ (known /\ index # 0 /\ documents[doc_id].layers[index].locked)
                    => last'.result = "InvalidOperation"
              /\ last'.result \in {"InvalidOperation", "DocumentNotFound",
                                   "LayerNotFound"}
                    => /\ pixel_data' = pixel_data
                       /\ documents' = documents]_vars

\* C10 witness: a stroke on a locked layer that has pixels was refused.
C10_Witness ==
    /\ last.op = "apply_brush_stroke"
    /\ last.result = "InvalidOperation"
    /\ last.doc_id \in DOMAIN documents
    /\ LET index == LayerIndex(documents[last.doc_id], last.layer_id)
       IN  /\ index # 0
           /\ documents[last.doc_id].layers[index].locked
           /\ last.layer_id \in DOMAIN pixel_data
           /\ Len(pixel_data[last.layer_id]) > 0

----------------------------------------------------------------------------
(* Claims about the brush, checked on the brush scenario (SpecBrush).      *)

\* The layer a stroke was asked to paint, as it is in the registry.
StrokeLayer == documents[last'.doc_id].layers[LayerIndex(documents[last'.doc_id], last'.layer_id)]

\* A stroke that got past the checks of apply_brush_stroke to its stamps.
StrokeStamped ==
    /\ last'.op = "apply_brush_stroke"
    /\ last'.result \in {"Ok", "NoReturn"}

\* Some pixel coordinate of the layer lies within the dab's radius.
DabMeetsLayer(layer, point, settings) ==
    \E px \in 0..(layer.width - 1), py \in 0..(layer.height - 1) :
        4 * ((px - (point.x - layer.x)) * (px - (point.x - layer.x))
              + (py - (point.y - layer.y)) * (py - (point.y - layer.y)))
            <= settings.size * settings.size

\* Every (px, py) the loops of a stamp visit, with the bounds as the casts
\* to usize leave them, has 0 <= px < layer_width and 0 <= py < layer_height.
VisitsOnlyLayerPixels(b) ==
    LET rows_run == b.max_y < 0 \/ b.min_y <= b.max_y
        cols_run == b.max_x < 0 \/ b.min_x <= b.max_x
    IN  (rows_run /\ cols_run) => (b.max_x >= 0 /\ b.max_y >= 0)

\* C11: the region a stamp iterates over is clamped to the layer: every
\* visited (px, py) satisfies 0 <= px < width and 0 <= py < height, and a
\* stroke whose dabs do not meet the layer visits no pixel, leaves the buffer
\* unchanged and completes.
C11_StampClampedToLayer ==
    [][StrokeStamped =>
          LET layer == StrokeLayer
              points == last'.args[1]
              settings == last'.args[2]
          IN  /\ last'.result = "Ok"
              /\ \A i \in 1..Len(points) :
                    VisitsOnlyLayerPixels(
                        StampBounds(layer.width, layer.height, layer.x,
                                    layer.y, points[i], settings))
              /\ (\A i \in 1..Len(points) :
                      ~DabMeetsLayer(layer, points[i], settings))
                    => pixel_data'[layer.id] = pixel_data[layer.id]]_vars

\* A stroke of opaque dabs: hardness, opacity and flow 100, pressure 1 or
\* absent, colour alpha 1, not erasing.
OpaqueStroke(points, settings, color, is_eraser) ==
    /\ ~is_eraser
    /\ settings.hardness = 100 /\ settings.opacity = 100 /\ settings.flow = 100
    /\ color.a = 100
    /\ \A i \in 1..Len(points) : UnwrapOr(points[i].pressure, 100) = 100

\* Pixel (px, py) of the layer lies within size/2 of the centre of the dab.
InDab(layer, point, settings, px, py) ==
    4 * ((px - (point.x - layer.x)) * (px - (point.x - layer.x))
          + (py - (point.y - layer.y)) * (py - (point.y - layer.y)))
        <= settings.size * settings.size

\* C12: a completed stroke of opaque hard dabs sets every layer pixel within
\* size/2 of a dab's centre to exactly the stroke colour with alpha 255 and
\* leaves every other pixel byte-identical, whatever the pixel held before:
\* where a later dab overlaps an earlier one of another colour, the overlap
\* ends with the later colour.
C12_OpaqueStamp ==
    [][(last'.op = "apply_brush_stroke" /\ last'.result = "Ok"
            /\ OpaqueStroke(last'.args[1], last'.args[2], last'.args[3],
                            last'.args[4])) =>
          LET layer == StrokeLayer
              points == last'.args[1]
              settings == last'.args[2]
              color == last'.args[3]
              old == pixel_data[layer.id]
              new == pixel_data'[layer.id]
          IN  /\ Len(new) = Len(old)
              /\ \A px \in 0..(layer.width - 1), py \in 0..(layer.height - 1) :
                    LET idx == (py * layer.width + px) * 4
                    IN  idx + 4 <= Len(old) =>
                          IF \E i \in 1..Len(points) :
                                 InDab(layer, points[i], settings, px, py)
                          THEN PixelAt(new, layer.width, layer.height, px, py)
                                  = <<color.r, color.g, color.b, 255>>
                          ELSE PixelAt(new, layer.width, layer.height, px, py)
                                  = PixelAt(old, layer.width, layer.height, px, py)
             ]_vars

\* C12 witness: on a BrushDim canvas a blue dab at (3, 2) was painted over a
\* red dab at (2, 2); (2, 2) lies in both and is blue, (0, 2) lies only in the
\* red one and is red, (0, 0) lies in neither and is still white.
C12_Witness ==
    /\ last.op = "apply_brush_stroke" /\ last.result = "Ok"
    /\ last.args = <<<<Point(3, 2)>>, Hard4, Blue, FALSE>>
    /\ last.layer_id \in DOMAIN pixel_data
    /\ LET pixels == pixel_data[last.layer_id]
       IN  /\ Len(pixels) = BrushDim * BrushDim * 4
           /\ PixelAt(pixels, BrushDim, BrushDim, 2, 2) = <<0, 0, 255, 255>>
           /\ PixelAt(pixels, BrushDim, BrushDim, 0, 2) = <<255, 0, 0, 255>>
           /\ PixelAt(pixels, BrushDim, BrushDim, 0, 0) = <<255, 255, 255, 255>>

\* C13: with hardness below 100 the alpha of a stamp is
\* (opacity/100)(flow/100)pressure at every distance up to hardness x radius,
\* does not increase with the distance over [0, radius] and is 0 at the
\* radius; a pixel farther than the radius from every dab is not modified.
C13_SoftStampFalloff ==
    [][(last'.op = "apply_brush_stroke" /\ last'.result = "Ok"
            /\ last'.args[2].hardness < 100) =>
          LET layer == StrokeLayer
              points == last'.args[1]
              settings == last'.args[2]
              r2 == settings.size * settings.size
              Offsets == {o \in (-settings.size..settings.size)
                                \X (-settings.size..settings.size) :
                             4 * (o[1] * o[1] + o[2] * o[2]) <= r2}
              Dist2(o) == 4 * (o[1] * o[1] + o[2] * o[2])
          IN  /\ \A i \in 1..Len(points) : \A o \in Offsets :
                    /\ 10000 * Dist2(o) <= r2 * settings.hardness * settings.hardness
                          => StampAlpha(points[i], settings, o[1], o[2])
                                = 100 * BaseOpacity(points[i], settings)
                    /\ \A q \in Offsets :
                          Dist2(o) <= Dist2(q)
                             => StampAlpha(points[i], settings, o[1], o[2])
                                   >= StampAlpha(points[i], settings, q[1], q[2])
                    /\ Dist2(o) = r2
                          => StampAlpha(points[i], settings, o[1], o[2]) = 0
              /\ \A px \in 0..(layer.width - 1), py \in 0..(layer.height - 1) :
                    (\A i \in 1..Len(points) :
                         ~InDab(layer, points[i], settings, px, py))
                       => PixelAt(pixel_data'[layer.id], layer.width,
                                  layer.height, px, py)
                             = PixelAt(pixel_data[layer.id], layer.width,
                                       layer.height, px, py)]_vars

\* C13 witness: a soft red dab of size 4 at (2, 2) on a white BrushDim
\* canvas: (1, 2), at the inner radius, is red; (1, 1), in the falloff ring,
\* is between red and white; (0, 2), at the radius, and (0, 0), beyond it,
\* are still white.
C13_Witness ==
    /\ last.op = "apply_brush_stroke" /\ last.result = "Ok"
    /\ last.args = <<<<Point(2, 2)>>, Soft4, Red, FALSE>>
    /\ last.layer_id \in DOMAIN pixel_data
    /\ LET pixels == pixel_data[last.layer_id]
           ring == PixelAt(pixels, BrushDim, BrushDim, 1, 1)
       IN  /\ Len(pixels) = BrushDim * BrushDim * 4
           /\ PixelAt(pixels, BrushDim, BrushDim, 1, 2) = <<255, 0, 0, 255>>
           /\ ring[1] = 255 /\ ring[2] > 0 /\ ring[2] < 255
           /\ PixelAt(pixels, BrushDim, BrushDim, 0, 2) = <<255, 255, 255, 255>>
           /\ PixelAt(pixels, BrushDim, BrushDim, 0, 0) = <<255, 255, 255, 255>>

----------------------------------------------------------------------------
(* Claims about blending and the DRKR format, checked on the save and open *)
(* scenario (SpecIo).                                                      *)

\* The step of save_document_drkr that writes the archive.
DrkrWriteStep ==
    /\ task.op = "save_document_drkr"
    /\ task.pc = "snapshot"
    /\ task' # task

\* destinations a source pixel is blended onto
Destinations == {Transparent, <<1, 2, 3, 255>>, <<10, 20, 30, 128>>}

\* The pixels of a stored buffer.
PixelsOf(pixels) ==
    {<<pixels[4 * k + 1], pixels[4 * k + 2], pixels[4 * k + 3],
       pixels[4 * k + 4]>> : k \in 0..((Len(pixels) \div 4) - 1)}

\* C14: source-over with source alpha 0 leaves the destination unchanged and
\* with source alpha 255 makes it exactly the source colour with alpha 255,
\* for every destination pixel, both in blend_pixel and in the merge of the
\* layers for the previews, where the source alpha is the pixel's alpha
\* scaled by the layer opacity.
C14_BlendEndpoints ==
    [][DrkrWriteStep =>
          \A i \in 1..Len(task.doc.layers) :
             LET layer == task.doc.layers[i]
             IN  layer.id \in DOMAIN task.layer_pixels =>
                   \A src \in PixelsOf(task.layer_pixels[layer.id]) :
                   \A dst \in Destinations :
                      LET src_alpha == (src[4] * layer.opacity) \div 100
                          opaque == <<src[1], src[2], src[3], 255>>
                      IN  /\ BlendPixel(dst, src[1], src[2], src[3], 0) = dst
                          /\ BlendPixel(dst, src[1], src[2], src[3], 255) = opaque
                          /\ src_alpha = 0
                                => CompositePixel(dst, src, layer.opacity) = dst
                          /\ src_alpha = 255
                                => CompositePixel(dst, src, layer.opacity) = opaque
             ]_vars

\* A save_document_drkr whose archive write has just succeeded.
DrkrWritten == DrkrWriteStep /\ task'.op = "save_document_drkr"

\* The layer entries C15 describes, from layer i on: meta.json for every
\* layer, followed by the payload when the layer has a stored buffer.
RECURSIVE LayerEntries(_, _, _)
LayerEntries(doc, layer_pixels, i) ==
    IF i > Len(doc.layers) THEN <<>>
    ELSE <<<<"meta.json", doc.layers[i].id>>>>
         \o (IF doc.layers[i].id \in DOMAIN layer_pixels
             THEN <<<<"pixels.webp", doc.layers[i].id>>>> ELSE <<>>)
         \o LayerEntries(doc, layer_pixels, i + 1)

\* C15: a DRKR write emits each entry once, in the order mimetype,
\* manifest.json, document.json, preview/thumbnail, preview/merged, then per
\* layer in document order its meta.json followed by its pixel payload; every
\* layer referenced in document.json has its meta.json, also a layer without
\* a stored buffer.
C15_WriteOrder ==
    [][DrkrWritten =>
          LET file == files'[task.path]
          IN  /\ file.entries
                    = <<<<"mimetype", NoId>>, <<"manifest.json", NoId>>,
                        <<"document.json", NoId>>,
                        <<"preview/thumbnail.webp", NoId>>,
                        <<"preview/merged.webp", NoId>>>>
                      \o LayerEntries(task.doc, task.layer_pixels, 1)
              /\ \A i, j \in 1..Len(file.entries) :
                    file.entries[i] = file.entries[j] => i = j
              /\ \A i \in 1..Len(file.document.layers) :
                    \E j \in 1..Len(file.entries) :
                       file.entries[j]
                          = <<"meta.json", file.document.layers[i].id>>
             ]_vars

\* C16: a DRKR write followed by a read of the written archive succeeds and
\* gives back the document's id, width, height and resolution and, in order,
\* each layer's id, type, visible, locked, opacity, blend mode, x, y, width
\* and height, for every reachable document: also one with layers that are
\* not Raster or that have no stored buffer.
C16_WriteReadRoundTrip ==
    [][DrkrWriteStep =>
          LET file == files'[task.path]
              doc == task.doc
          IN  /\ file.kind = "zip"
              /\ LET read == ReadAll(file, now)
                 IN  /\ read.result = "Ok"
                     /\ read.document.id = doc.id
                     /\ read.document.width = doc.width
                     /\ read.document.height = doc.height
                     /\ read.document.resolution = doc.resolution
                     /\ read.document.layers = doc.layers]_vars

\* An open_document_drkr returns, having been given an archive on disk.
OpenDrkrReturns ==
    /\ last'.op = "open_document_drkr"
    /\ last' # last
    /\ last'.args[1] \in DOMAIN files
    /\ files[last'.args[1]].kind = "zip"

\* C17: an archive whose mimetype entry is not exactly application/x-drkr,
\* added whitespace or a trailing newline included, is refused with
\* InvalidOperation and no document is registered.
C17_MimetypeExact ==
    [][(OpenDrkrReturns /\ files[last'.args[1]].mimetype # DRKR_MIMETYPE) =>
          /\ last'.result = "InvalidOperation"
          /\ UNCHANGED registry]_vars

\* C18: an archive loads only if the major component of its manifest version
\* is a number that is at most 1; with a major above 1 the open returns
\* InvalidOperation, before document.json or any layer is read (a layer
\* without meta.json does not turn the error into an I/O error) and nothing
\* is registered; the mimetype is checked before the version.
C18_VersionGate ==
    [][OpenDrkrReturns =>
          LET file == files[last'.args[1]]
          IN  /\ last'.result = "Ok"
                    => /\ file.major_version # None
                       /\ file.major_version[1] <= 1
              /\ (file.major_version # None /\ file.major_version[1] > 1)
                    => /\ last'.result = "InvalidOperation"
                       /\ UNCHANGED registry
              /\ Trim(file.mimetype) # DRKR_MIMETYPE
                    => last'.result = "InvalidOperation"]_vars

\* C19: a Raster or "ai_generated" layer whose pixel payload is missing or
\* cannot be decoded does not fail the read: the layer gets a buffer of
\* width x height x 4 zero bytes, the size taken from its meta.json, every
\* other layer is loaded as the archive gives it, and the layers keep the
\* order of document.json.
C19_PayloadFallback ==
    [][OpenDrkrReturns =>
          LET file == files[last'.args[1]]
              refs == file.document.layers
          IN  (/\ Validate(file) = "Ok"
               /\ \A i \in 1..Len(refs) : refs[i].meta # None)
              => /\ last'.result = "Ok"
                 /\ LET doc == documents'[last'.doc_id]
                    IN  /\ Len(doc.layers) = Len(refs)
                        /\ \A i \in 1..Len(refs) :
                              LET layer == ToLayer(refs[i].meta[1])
                              IN  /\ doc.layers[i] = layer
                                  /\ refs[i].layer_type \in {"raster", "ai_generated"}
                                        => pixel_data'[refs[i].id]
                                              = IF refs[i].pixels = None
                                                THEN Repeat(0, layer.width
                                                        * layer.height * 4)
                                                ELSE refs[i].pixels[1]]_vars

\* C19 witness: two.drkr was opened; its first layer's payload is missing and
\* the layer has one transparent pixel, its second layer has the pixel of its
\* payload, and the layers are in the order of document.json.
C19_Witness ==
    /\ last.op = "open_document_drkr" /\ last.result = "Ok"
    /\ last.args = <<"two.drkr">>
    /\ files["two.drkr"].document.layers[1].pixels = None
    /\ 101 \in DOMAIN documents
    /\ Len(documents[101].layers) = 2
    /\ documents[101].layers[1].id = 102
    /\ documents[101].layers[2].id = 104
    /\ {102, 104} \subseteq DOMAIN pixel_data
    /\ pixel_data[102] = <<0, 0, 0, 0>>
    /\ pixel_data[104] = <<7, 8, 9, 170>>

\* A step of a save or open command that reads or writes a file.
FileStep ==
    \/ /\ task.op = "save_document_drkr" /\ task.pc = "snapshot" /\ task' # task
    \/ /\ task.op = "save_document" /\ task.pc = "locked" /\ task' # task
    \/ /\ task = Idle
       /\ task'.op \in {"open_document_drkr", "open_document"}

\* C20: in save_document, save_document_drkr, open_document and
\* open_document_drkr no step that reads or writes a file or an archive runs
\* while the registry lock is held.
C20_NoFileStepUnderLock ==
    [][FileStep => mutex = "free"]_vars

----------------------------------------------------------------------------
(* C21..C30.                                                               *)

\* A step in which a command returns to its caller: a whole command, or the
\* last stage of a save or an open.
CommandReturns == task' = Idle /\ (steps' # steps \/ task # Idle)

\* A command that returns without having asked for the lock: an open whose
\* file could not be read, a DRKR save whose archive could not be written.
ReturnsBeforeLock ==
    \/ task = Idle /\ last'.op \in {"open_document_drkr", "open_document"}
                   /\ last'.result \notin {"Ok", "InvalidOperation"}
    \/ task # Idle /\ task.op = "save_document_drkr" /\ task.pc = "snapshot"

\* C21: once the registry lock is poisoned, every command that asks for it
\* (create, get, close, list, set path, add/remove/update/reorder layer,
\* get/set pixels, brush, filter, crop, save, open) returns InvalidOperation
\* and leaves documents, history and pixel buffers as they were; no command
\* panics.
C21_PoisonedLock ==
    [][mutex = "poisoned" =>
          /\ registry' = registry
          /\ mutex' = "poisoned"
          /\ CommandReturns => last'.result # "Panic"
          /\ CommandReturns /\ ~ReturnsBeforeLock =>
                last'.result = "InvalidOperation"]_vars

\* a command that only fails on the lock has returned InvalidOperation with
\* a document open
C21_Witness ==
    /\ mutex = "poisoned"
    /\ last.op \in {"add_layer", "save_document_drkr", "list_documents"}
    /\ last.result = "InvalidOperation"
    /\ documents # <<>>

\* C22: whatever arguments the earlier commands were given, a create, crop,
\* apply_brush_stroke, apply_filter, reorder_layers or save returns a value
\* or one of InvalidOperation, DocumentNotFound, LayerNotFound; it never
\* panics on an index out of range or on width x height x 4 overflowing u32.
C22_NoPanic ==
    last.op \in {"create", "crop", "apply_brush_stroke", "apply_filter",
                 "reorder_layers", "save_document", "save_document_drkr"}
        => last.result \in {"Ok", "InvalidOperation", "DocumentNotFound",
                            "LayerNotFound"}

OpacityInRange ==
    \A d \in DOMAIN documents : \A i \in 1..Len(documents[d].layers) :
        documents[d].layers[i].opacity \in 0..100

\* What a field of the patch does to a field of the layer.
Patched(old, opt) == IF opt = None THEN old ELSE opt[1]

\* An update_layer that returned Ok stored its patch and nothing else.
UpdateStoresPatch ==
    steps' # steps /\ last'.op = "update_layer" /\ last'.result = "Ok" =>
        LET d == last'.doc_id
            u == last'.args[1]
            i == LayerIndex(documents[d], last'.layer_id)
            old == documents[d].layers[i]
            new == documents'[d].layers[i]
        IN  /\ new = [old EXCEPT
                        !.visible = Patched(old.visible, u.visible),
                        !.locked = Patched(old.locked, u.locked),
                        !.opacity = IF u.opacity = None THEN old.opacity
                                    ELSE IF u.opacity[1] > 100 THEN 100
                                    ELSE u.opacity[1],
                        !.blend_mode = Patched(old.blend_mode, u.blend_mode),
                        !.x = Patched(old.x, u.x),
                        !.y = Patched(old.y, u.y)]
            /\ Len(documents'[d].layers) = Len(documents[d].layers)
            /\ \A j \in 1..Len(documents[d].layers) :
                  j # i => documents'[d].layers[j] = documents[d].layers[j]

\* C23: in every reachable state every layer of every open document has an
\* opacity within 0..100: update_layer stores min(requested, 100) and
\* changes only the fields its patch holds, and a layer that came from a
\* DRKR file has opacity <= 100 whatever its meta.json says.
C23_OpacityClamped == []OpacityInRange /\ [][UpdateStoresPatch]_vars

\* The update_layer half of C23 on its own: it holds.
UpdateLayerStoresPatch == [][UpdateStoresPatch]_vars

HistoryBounded ==
    \A d \in DOMAIN history :
        Len(history[d].undo_stack) <= history[d].max_entries

Top(stack) == stack[Len(stack)]
Pop(stack) == SubSeq(stack, 1, Len(stack) - 1)

\* What one call of push, undo or redo does to the two stacks, and what it
\* returns.
HistoryStep ==
    LET h == history[HistoryDoc]
        g == history'[HistoryDoc]
        undone == last.op = "undo" /\ last.value # None
    IN  /\ next_uuid' # next_uuid =>
              /\ g.redo_stack = <<>>
              /\ g.undo_stack =
                    (IF Len(h.undo_stack) = h.max_entries
                     THEN Tail(h.undo_stack) ELSE h.undo_stack)
                        \o <<last'.args[1]>>
        /\ steps' # steps /\ last'.op = "undo" =>
              IF h.undo_stack = <<>>
              THEN last'.value = None /\ g = h
              ELSE /\ last'.value = Some(Top(h.undo_stack))
                   /\ g.undo_stack = Pop(h.undo_stack)
                   /\ g.redo_stack = h.redo_stack \o <<Top(h.undo_stack)>>
        /\ steps' # steps /\ last'.op = "redo" =>
              IF h.redo_stack = <<>>
              THEN last'.value = None /\ g = h
              ELSE /\ last'.value = Some(Top(h.redo_stack))
                   /\ g.redo_stack = Pop(h.redo_stack)
                   /\ g.undo_stack = h.undo_stack \o <<Top(h.redo_stack)>>
                   /\ undone => last'.value = last.value /\ g = phase.before
        /\ g.max_entries = h.max_entries

\* C24: the undo stack never holds more than max_entries entries; a push at
\* capacity evicts the oldest entry, and every push empties the redo stack;
\* undo returns the entry pushed or redone last (none on an empty stack),
\* redo the entry undone last (none on an empty stack), and an undo followed
\* by a redo leaves both stacks as they were.
C24_HistoryContract == []HistoryBounded /\ [][HistoryStep]_vars

\* a redo has just restored the entry an undo took from a full stack that
\* had evicted its oldest entry
C24_Witness ==
    /\ last.op = "redo"
    /\ last.value = Some(next_uuid)
    /\ next_uuid > HistoryCapacity
    /\ Len(history[HistoryDoc].undo_stack) = HistoryCapacity
    /\ history[HistoryDoc].undo_stack[1] = next_uuid - HistoryCapacity + 1
    /\ history[HistoryDoc] = phase.before

----------------------------------------------------------------------------
(* Claims about blending, erasing, the merged preview, layer order and     *)
(* saving.                                                                 *)

Grey == [r |-> 100, g |-> 150, b |-> 200, a |-> 100]
SourceColours == {Red, Blue, Grey}
SourceAlphas == {0, 2, 63, 128, 255}

\* num / den rounded to the nearest integer, at most 255
RoundedByte(num, den) == Min(255, (2 * num + den) \div (2 * den))

\* Source-over as C25 states it: out_a = src_a + dst_a * (1 - src_a),
\* out_c = (src_c * src_a + dst_c * dst_a * (1 - src_a)) / out_a, each
\* rounded to the nearest byte, and four zeros when out_a = 0.
BlendRounded(dst, src_r, src_g, src_b, src_a) ==
    LET den == 255 * src_a + dst[4] * (255 - src_a)
        out(src_c, dst_c) ==
            RoundedByte(src_c * src_a * 255 + dst_c * dst[4] * (255 - src_a),
                        den)
    IN  IF den = 0 THEN <<0, 0, 0, 0>>
        ELSE <<out(src_r, dst[1]), out(src_g, dst[2]), out(src_b, dst[3]),
               RoundedByte(den, 255)>>

\* C25: for every source colour, pre-scaled source alpha and destination
\* pixel, blend_pixel returns the source-over result computed on values in
\* [0,1] and converted back to bytes by rounding to the nearest integer,
\* with all four channels 0 when the resulting alpha is 0.
C25_BlendRounds ==
    \A key \in DOMAIN pixel_data :
    \A dst \in PixelsOf(pixel_data[key]) :
    \A c \in SourceColours :
    \A src_a \in SourceAlphas :
       BlendPixel(dst, c.r, c.g, c.b, src_a)
          = BlendRounded(dst, c.r, c.g, c.b, src_a)

\* The same with the two divergences named: 0 is read as the early return
\* of an empty source, and each byte is cut, not rounded.
BlendTruncates ==
    \A key \in DOMAIN pixel_data :
    \A dst \in PixelsOf(pixel_data[key]) :
    \A c \in SourceColours :
    \A src_a \in SourceAlphas \ {0} :
       LET den == 255 * src_a + dst[4] * (255 - src_a)
           got == BlendPixel(dst, c.r, c.g, c.b, src_a)
           want == BlendRounded(dst, c.r, c.g, c.b, src_a)
       IN  \A k \in 1..4 : got[k] \in {want[k], want[k] - 1}

\* A completed eraser stroke of one dab.
ErasedOnce ==
    /\ last'.op = "apply_brush_stroke" /\ last'.result = "Ok"
    /\ steps' # steps
    /\ last'.args[4]
    /\ Len(last'.args[1]) = 1

\* C26: an eraser stamp changes only the alpha byte of each covered pixel,
\* to the old alpha multiplied by (1 - stamp alpha), and leaves R, G and B
\* as they were; where the stamp alpha is 1 the new alpha is 0; the alpha of
\* no pixel increases.
C26_EraserScalesAlpha ==
    [][ErasedOnce =>
          LET layer == StrokeLayer
              point == last'.args[1][1]
              settings == last'.args[2]
              old == pixel_data[layer.id]
              new == pixel_data'[layer.id]
          IN  /\ Len(new) = Len(old)
              /\ \A px \in 0..(layer.width - 1), py \in 0..(layer.height - 1) :
                    LET was == PixelAt(old, layer.width, layer.height, px, py)
                        is == PixelAt(new, layer.width, layer.height, px, py)
                        alpha == StampAlpha(point, settings,
                                            px - (point.x - layer.x),
                                            py - (point.y - layer.y))
                    IN  /\ <<is[1], is[2], is[3]>> = <<was[1], was[2], was[3]>>
                        /\ is[4] <= was[4]
                        /\ IF InDab(layer, point, settings, px, py)
                           THEN /\ 10000 * is[4] <= was[4] * (10000 - alpha)
                                /\ 10000 * (is[4] + 1) > was[4] * (10000 - alpha)
                                /\ alpha = 10000 => is[4] = 0
                           ELSE is = was]_vars

\* C26 witness: a soft eraser dab of size 4 at (2, 2) went over a white
\* BrushDim canvas twice: (1, 2), inside the inner radius, is white with
\* alpha 0, (1, 1), in the falloff ring, is white with an alpha between 0
\* and 255, and (0, 0), outside the dab, is opaque white.
C26_Witness ==
    /\ last.op = "apply_brush_stroke" /\ last.result = "Ok"
    /\ last.args = <<<<Point(2, 2)>>, Soft4, Red, TRUE>>
    /\ phase.before = BrushStrokes
    /\ last.layer_id \in DOMAIN pixel_data
    /\ LET pixels == pixel_data[last.layer_id]
           ring == PixelAt(pixels, BrushDim, BrushDim, 1, 1)
       IN  /\ Len(pixels) = BrushDim * BrushDim * 4
           /\ PixelAt(pixels, BrushDim, BrushDim, 1, 2) = <<255, 255, 255, 0>>
           /\ <<ring[1], ring[2], ring[3]>> = <<255, 255, 255>>
           /\ ring[4] > 0 /\ ring[4] < 128
           /\ PixelAt(pixels, BrushDim, BrushDim, 0, 0) = <<255, 255, 255, 255>>

\* Pixel (X, Y) of the canvas after source-over of the layers from i on, as
\* C27 states it: a layer counts when it is visible, has a buffer and covers
\* (X, Y); its pixel goes over dst with its alpha times opacity / 100.
RECURSIVE MergedPixel(_, _, _, _, _, _)
MergedPixel(doc, layer_pixels, i, dst, X, Y) ==
    IF i > Len(doc.layers) THEN dst
    ELSE LET layer == doc.layers[i]
             x == X - layer.x
             y == Y - layer.y
             covers == /\ layer.visible
                       /\ layer.id \in DOMAIN layer_pixels
                       /\ x >= 0 /\ x < layer.width
                       /\ y >= 0 /\ y < layer.height
             src == PixelAt(layer_pixels[layer.id], layer.width,
                            layer.height, x, y)
         IN  MergedPixel(doc, layer_pixels, i + 1,
                IF covers
                THEN BlendPixel(dst, src[1], src[2], src[3],
                                Min(255, (src[4] * layer.opacity) \div 100))
                ELSE dst,
                X, Y)

MergedAsStated(doc, layer_pixels) ==
    [k \in 1..(doc.width * doc.height * 4) |->
        MergedPixel(doc, layer_pixels, 1, Transparent,
                    ((k - 1) \div 4) % doc.width,
                    ((k - 1) \div 4) \div doc.width)[((k - 1) % 4) + 1]]

\* C27: the merged preview of a written archive is a transparent canvas of
\* the document's size with every visible layer that has a buffer put over
\* it in index order, at its position, its alpha scaled by opacity / 100,
\* pixels outside the canvas skipped; hidden layers and layers without a
\* buffer change nothing.
C27_MergedPreview ==
    [][DrkrWritten =>
          files'[task.path].merged
             = MergedAsStated(task.doc, task.layer_pixels)]_vars

\* The same for documents whose layers all have an opacity within 0..100.
MergedPreviewInRange ==
    [][(DrkrWritten
          /\ \A i \in 1..Len(task.doc.layers) :
                 task.doc.layers[i].opacity <= 100) =>
          files'[task.path].merged
             = MergedAsStated(task.doc, task.layer_pixels)]_vars

\* A written archive of a document with a hidden layer, a layer without a
\* buffer or a layer moved off the canvas.
MergedSkips ==
    /\ task.op = "save_document_drkr" /\ task.pc = "written"
    /\ \E i \in 1..Len(task.doc.layers) :
          \/ ~task.doc.layers[i].visible
          \/ task.doc.layers[i].x < 0

\* seq without its i-th element
Others(seq, i) ==
    [k \in 1..(Len(seq) - 1) |-> IF k < i THEN seq[k] ELSE seq[k + 1]]

\* reorder_layers has run on a document of the registry, with the lock.
Reordered ==
    /\ last'.op = "reorder_layers"
    /\ steps' # steps
    /\ task = Idle /\ task' = Idle
    /\ mutex = "free"
    /\ last'.doc_id \in DOMAIN documents

\* C28: reorder_layers(doc, from, to) with from or to at or above the layer
\* count returns InvalidOperation and changes nothing; with valid indices
\* the layer that was at index from is at index to, the other layers keep
\* their relative order, and the set of layers and every pixel buffer are as
\* before.
C28_ReorderLayers ==
    [][Reordered =>
          LET from_index == last'.args[1]
              to_index == last'.args[2]
              old == documents[last'.doc_id].layers
              new == documents'[last'.doc_id].layers
          IN  /\ pixel_data' = pixel_data
              /\ DOMAIN documents' = DOMAIN documents
              /\ IF from_index >= Len(old) \/ to_index >= Len(old)
                 THEN /\ last'.result = "InvalidOperation"
                      /\ documents' = documents
                 ELSE /\ last'.result = "Ok"
                      /\ Len(new) = Len(old)
                      /\ new[to_index + 1] = old[from_index + 1]
                      /\ Others(new, to_index + 1) = Others(old, from_index + 1)
                      /\ {new[k] : k \in 1..Len(new)}
                            = {old[k] : k \in 1..Len(old)}]_vars

\* C28 witness: the bottom layer of a three-layer document was moved to the
\* top: the two layers above it moved down by one, in their order.
C28_Witness ==
    /\ last.op = "reorder_layers" /\ last.result = "Ok"
    /\ last.args = <<0, 2>>
    /\ last.doc_id \in DOMAIN documents
    /\ LET layers == documents[last.doc_id].layers
       IN  /\ Len(layers) = 3
           /\ <<layers[1].id, layers[3].id>> = <<104, 102>>
           /\ layers[2].id \notin {102, 104}

\* save_document_drkr is between its first block and its return.
SaveInFlight == task # Idle /\ task.op = "save_document_drkr"

\* The first block of save_document_drkr has just run on a known document.
SnapshotStep == task = Idle /\ task' # Idle /\ task'.op = "save_document_drkr"

\* The last block of save_document_drkr.
DrkrCommitStep == SaveInFlight /\ task.pc = "written" /\ task' # task

\* What the archive holds of layer i is the snapshot's.
WrittenFromSnapshot(file, doc, layer_pixels, i) ==
    LET layer == doc.layers[i]
        ref == file.document.layers[i]
    IN  /\ ref.id = layer.id
        /\ ref.meta # None => ref.meta = Some(FromLayer(layer))
        /\ ref.pixels # None =>
              /\ layer.id \in DOMAIN layer_pixels
              /\ ref.pixels = Some(SubSeq(layer_pixels[layer.id], 1,
                                          layer.width * layer.height * 4))
        /\ layer.id \in DOMAIN layer_pixels =>
              ref.meta # None /\ ref.pixels # None

\* C29: the archive save_document_drkr writes shows one registry state, the
\* one of the snapshot: the document and every buffer the save holds are
\* those of the state in which the first block ran, they stay so whatever
\* runs before the write ends, and the archive is written from them; the
\* commands that run meanwhile find the lock free and what they did to the
\* registry is still there after the write and after the save's last block.
C29_SnapshotWritten ==
    /\ [](SaveInFlight => mutex = "free")
    /\ [][/\ SnapshotStep =>
               /\ task'.doc = documents[task'.doc_id]
               /\ task'.layer_pixels =
                     [id \in {l \in LayerIds(documents[task'.doc_id]) :
                                l \in DOMAIN pixel_data} |-> pixel_data[id]]
               /\ documents' = documents /\ pixel_data' = pixel_data
          /\ SaveInFlight /\ task' # Idle =>
               /\ task'.doc = task.doc
               /\ task'.layer_pixels = task.layer_pixels
               /\ task'.doc_id = task.doc_id /\ task'.path = task.path
          /\ DrkrWritten =>
               LET file == files'[task.path]
               IN  /\ file.kind = "zip"
                   /\ <<file.document.id, file.document.width,
                         file.document.height>>
                         = <<task.doc.id, task.doc.width, task.doc.height>>
                   /\ Len(file.document.layers) = Len(task.doc.layers)
                   /\ \A i \in 1..Len(task.doc.layers) :
                         WrittenFromSnapshot(file, task.doc,
                                             task.layer_pixels, i)
          /\ DrkrWriteStep =>
               /\ documents' = documents
               /\ pixel_data' = pixel_data
               /\ history' = history
          /\ DrkrCommitStep =>
               /\ pixel_data' = pixel_data
               /\ history' = history
               /\ DOMAIN documents' = DOMAIN documents
               /\ \A d \in DOMAIN documents :
                     [documents'[d] EXCEPT !.source_path = None]
                        = [documents[d] EXCEPT !.source_path = None]
         ]_vars

\* C29 witness: an archive has been written from a snapshot while the layer
\* of the document was updated: the archive holds the layer as it was, the
\* registry as it is now.
C29_Witness ==
    /\ SaveInFlight /\ task.pc = "written"
    /\ last.op = "update_layer" /\ last.result = "Ok"
    /\ last.doc_id = task.doc_id
    /\ task.doc_id \in DOMAIN documents
    /\ documents[task.doc_id].layers[1] # task.doc.layers[1]
    /\ files[task.path].document.layers[1].meta
          = Some(FromLayer(task.doc.layers[1]))

\* The write of save_document_drkr has just failed.
DrkrWriteFailed == DrkrWriteStep /\ task' = Idle

\* C30: save_document_drkr sets source_path only in its last block, after
\* the archive was written and finished: its first block and its write
\* leave the registry as it is, a failed write ends the command with an
\* error, and when the document is no longer in the registry at the last
\* block the command returns DocumentNotFound and puts back neither the
\* document nor its buffers nor its history.
C30_PathAfterWrite ==
     [][/\ (SnapshotStep \/ DrkrWriteStep) =>
             /\ documents' = documents
             /\ pixel_data' = pixel_data
             /\ history' = history
        /\ DrkrWriteFailed =>
             /\ last'.op = "save_document_drkr"
             /\ last'.result \notin {"Ok", "DocumentNotFound"}
        /\ DrkrCommitStep /\ mutex = "free" =>
             /\ files[task.path].kind = "zip"
             /\ files' = files
             /\ last'.op = "save_document_drkr"
             /\ pixel_data' = pixel_data
             /\ history' = history
             /\ IF task.doc_id \in DOMAIN documents
                THEN /\ last'.result = "Ok"
                     /\ documents' = [documents EXCEPT
                            ![task.doc_id].source_path = Some(task.path)]
                ELSE /\ last'.result = "DocumentNotFound"
                     /\ documents' = documents
        ]_vars

\* C30 witness: a save whose document was closed after the archive was
\* taken from it has returned DocumentNotFound; the archive is on disk, the
\* document, its buffers and its history are not in the registry.
C30_Witness ==
    /\ task = Idle
    /\ last.op = "save_document_drkr" /\ last.result = "DocumentNotFound"
    /\ last.doc_id # NoId
    /\ last.doc_id \notin DOMAIN documents
    /\ last.doc_id \notin DOMAIN history
    /\ DOMAIN pixel_data = {}
    /\ last.args[1] \in DOMAIN files
    /\ files[last.args[1]].kind = "zip"
    /\ files[last.args[1]].document.id = last.doc_id

\* A save whose write failed has returned its error and left a file that
\* is no archive; the document is in the registry without a source path.
WriteFailedSeen ==
    /\ task = Idle
    /\ last.op = "save_document_drkr"
    /\ last.result \notin {"Ok", "DocumentNotFound"}
    /\ last.doc_id \in DOMAIN documents
    /\ documents[last.doc_id].source_path # Some(last.args[1])
    /\ files[last.args[1]].kind = "partial"
====
